---- MODULE Spec2Model ----
(***************************************************************************)
(* The session/message coordination core of PocketPing (sdk-python).       *)
(*                                                                         *)
(* Every coroutine of core.py is modelled as a sequence of atomic steps.   *)
(* A step resumes a task at the await it is suspended in, runs the code    *)
(* up to the next await and performs the awaited operation (a storage      *)
(* call, a bridge call, a websocket send, the AI provider call).  The      *)
(* storage keeps the objects it is handed: the local `session` of a        *)
(* handler denotes the stored session, so a field assignment and the       *)
(* update_session that follows it are one step.                            *)
(***************************************************************************)
EXTENDS Integers, Sequences, FiniteSets, TLC

\* ------------------------------------------------------------------------
\* Bounds of the model
\* ------------------------------------------------------------------------
MaxTime == 3
MaxMessages == 2
MaxSessions == 2
NumProcs == 1
NumBridges == 2
NumWS == 1
MaxHist == 3
MaxNow == 5
NumConnects == 2

\* ------------------------------------------------------------------------
\* Program constants and configuration
\* ------------------------------------------------------------------------
ai_takeover_delay == 2
RecentLimit == 10

None == 0
VISITOR == "visitor"
OPERATOR == "operator"
AI == "ai"
Sender == {VISITOR, OPERATOR, AI}
MessageStatus == {"sending", "sent", "delivered", "read"}

LoopTask == 0
Procs == 1..NumProcs
\* the broadcasts set_operator_online spawns, one task per session: task -s
PresenceTasks == {0 - s : s \in 1..MaxSessions}
Tasks == {LoopTask} \cup Procs \cup PresenceTasks
SessionIds == 1..MaxSessions
Bridges == 1..NumBridges
WS == 1..NumWS
Visitors == {"v1", "v2"}
Times == 1..MaxTime

NoMeta == [present |-> FALSE, url |-> 0, ip |-> 0, country |-> 0, city |-> 0]
PageMeta == [present |-> TRUE, url |-> 1, ip |-> 1, country |-> 1, city |-> 0]
MetaChoices ==
  { [present |-> TRUE, url |-> 1, ip |-> 1, country |-> 1, city |-> 0],
    [present |-> TRUE, url |-> 2, ip |-> 0, country |-> 0, city |-> 1] }

VARIABLES
  sessions,               \* storage: session id -> Session
  messages,               \* storage: the saved messages, in the order they were saved
  now,                    \* the clock read by datetime.utcnow() and time.time()
  ai_provider,            \* TRUE iff an AI provider is configured
  operator_online,        \* self._operator_online
  last_operator_activity, \* self._last_operator_activity: session id -> time
  websocket_connections,  \* self._websocket_connections: session id -> set of sockets
  tasks,                  \* the presence loop (LoopTask) and the request tasks
  event_handlers,         \* self._event_handlers: event name -> set of handlers
  on_event_callback,      \* TRUE iff an on_event callback is configured
  response_content        \* what ai_provider.generate_response returns: its length

vars == <<sessions, messages, now, ai_provider, operator_online,
          last_operator_activity, websocket_connections, tasks,
          event_handlers, on_event_callback, response_content>>

\* ------------------------------------------------------------------------
\* Records
\* ------------------------------------------------------------------------
NewSession(vid, meta) ==
  [visitor_id |-> vid, created_at |-> now, last_activity |-> now,
   operator_online |-> operator_online, ai_active |-> FALSE, metadata |-> meta,
   takeovers |-> 0,   \* takeovers: history, the number of takeover actions run
   called |-> 0]      \* called: history, the size of the session's history
                      \* when generate_response was last called for it

\* no registration (on_event was never called)
NoHandlers == [n \in {} |-> {}]

\* the length of a message content that every validation accepts
DefaultContent == 1

\* Message(id, session_id, content, sender): content is the length of the text
NewMessage(id, sid, content, sender) ==
  [id |-> id, session_id |-> sid, content |-> content, sender |-> sender,
   timestamp |-> now, status |-> "sent", delivered_at |-> None, read_at |-> None]

NoIter == [sid |-> 0, size |-> 0, seen |-> {}, cur |-> 0, dead |-> {}]
NoResult == [session_id |-> 0, visitor_id |-> "", operator_online |-> FALSE,
             messages |-> <<>>, message_id |-> 0, timestamp |-> 0, updated |-> 0,
             has_more |-> FALSE]

IdleTask ==
  [op |-> "none", pc |-> "idle", sid |-> 0, vid |-> "", sender |-> "",
   meta |-> NoMeta, session |-> 0, is_new |-> FALSE, message |-> 0, bi |-> 0,
   it |-> NoIter, ret |-> "", err |-> "", log |-> <<>>, queue |-> <<>>,
   lv |-> 0, lr |-> 0, seen_id |-> FALSE, seen_vid |-> FALSE,
   returns |-> FALSE, at |-> 0, result |-> NoResult,
   message_ids |-> <<>>, status |-> "", mi |-> 0, updated |-> 0, stamp |-> 0,
   online |-> FALSE,     \* the payload of a presence event
   caller |-> "", source_bridge |-> 0, tag |-> 0,   \* send_operator_message
   content |-> 0,        \* the content of a SendMessageRequest: its length
   after |-> 0, limit |-> 0,   \* handle_get_messages
   name |-> "", stage |-> "", capable |-> {},   \* handle_custom_event
   no_reply |-> FALSE]   \* no_reply: history, see handle_message

LoopIdle == [IdleTask EXCEPT !.op = "loop", !.pc = "sleep"]

Ev(e, a) == [e |-> e, a |-> a]
Logged(t, e, a) == [t EXCEPT !.log = Append(@, Ev(e, a))]

\* ------------------------------------------------------------------------
\* Storage (the in-memory reference implementation)
\* ------------------------------------------------------------------------
get_session(id) == IF id \in DOMAIN sessions THEN id ELSE None

VisitorSessions(vid) == {s \in DOMAIN sessions : sessions[s].visitor_id = vid}

\* the candidates of get_session_by_visitor_id: the most recent sessions of the visitor
MostRecentSessions(vid) ==
  {s \in VisitorSessions(vid) :
     \A o \in VisitorSessions(vid) : sessions[o].last_activity <= sessions[s].last_activity}

RECURSIVE SelectSeq2(_, _)
SelectSeq2(seq, sid) ==
  IF seq = <<>> THEN <<>>
  ELSE IF Head(seq).session_id = sid
       THEN <<Head(seq)>> \o SelectSeq2(Tail(seq), sid)
       ELSE SelectSeq2(Tail(seq), sid)

\* get_messages(session_id): the messages of the session, oldest first
get_messages(sid) == SelectSeq2(messages, sid)

\* get_messages(session_id, limit=n) as the takeover check uses it: the recent window
recent_messages(sid, limit) ==
  LET all == get_messages(sid)
  IN IF Len(all) <= limit THEN all
     ELSE SubSeq(all, Len(all) - limit + 1, Len(all))

\* get_message(id): the position of the stored message, None when there is none
get_message(id) ==
  IF \E k \in 1..Len(messages) : messages[k].id = id
  THEN CHOOSE k \in 1..Len(messages) : messages[k].id = id
  ELSE None

\* save_message(m): insert, or update by id where the message stands
save_message(msgs, m) ==
  IF \E k \in 1..Len(msgs) : msgs[k].id = m.id
  THEN [k \in 1..Len(msgs) |-> IF msgs[k].id = m.id THEN m ELSE msgs[k]]
  ELSE Append(msgs, m)

\* get_all_sessions(): the stored sessions in creation order
RECURSIVE SessionsFrom(_)
SessionsFrom(i) ==
  IF i > MaxSessions THEN <<>>
  ELSE IF i \in DOMAIN sessions THEN <<i>> \o SessionsFrom(i + 1)
       ELSE SessionsFrom(i + 1)

get_all_sessions == SessionsFrom(1)

MessageIds(seq) == [i \in 1..Len(seq) |-> seq[i].id]

Conns(sid) ==
  IF sid \in DOMAIN websocket_connections THEN websocket_connections[sid] ELSE {}

LastActivity(sid) ==
  IF sid \in DOMAIN last_operator_activity THEN last_operator_activity[sid] ELSE None

\* ------------------------------------------------------------------------
\* AI takeover decision (_check_ai_takeover)
\* ------------------------------------------------------------------------
\* mutant: the operator-activity test of lines 378-382 is missing
CheckEarly_ignores_operator(provider, session, last_activity, t) ==
  /\ provider
  /\ ~session.ai_active

\* mutant: the ai_active test of lines 374-375 is missing
CheckEarly_ignores_active(provider, session, last_activity, t) ==
  /\ provider
  /\ ~(last_activity # None /\ t - last_activity < ai_takeover_delay)

\* lines 371-382: TRUE iff the check gets as far as fetching the messages
CheckEarly(provider, session, last_activity, t) ==
  /\ provider
  /\ ~session.ai_active
  /\ ~(last_activity # None /\ t - last_activity < ai_takeover_delay)

\* lines 390-397: one backward pass over the window
RECURSIVE ScanBack(_, _, _)
ScanBack(msgs, lv, lr) ==
  IF msgs = <<>> THEN [lv |-> lv, lr |-> lr]
  ELSE LET msg == msgs[Len(msgs)]
           rest == SubSeq(msgs, 1, Len(msgs) - 1)
       IN IF msg.sender = VISITOR /\ lv = None
          THEN ScanBack(rest, msg.timestamp, lr)
          ELSE IF msg.sender \in {OPERATOR, AI} /\ lr = None
               THEN ScanBack(rest, lv, msg.timestamp)
               ELSE ScanBack(rest, lv, lr)

ScanMessages(msgs) == ScanBack(msgs, None, None)

\* mutant: the boundary of line 405 is exclusive
CheckLate_strict(lv, lr, t) ==
  /\ lv # None
  /\ (lr = None \/ lr < lv)
  /\ t - lv > ai_takeover_delay

\* mutant: line 403 does not compare the response with the visitor message
CheckLate_any_response(lv, lr, t) ==
  /\ lv # None
  /\ t - lv >= ai_takeover_delay

\* lines 399-408
CheckLate(lv, lr, t) ==
  /\ lv # None
  /\ (lr = None \/ lr < lv)
  /\ t - lv >= ai_takeover_delay

\* the whole decision, evaluated without the clock moving in between
check_ai_takeover(provider, sid, t) ==
  LET scan == ScanMessages(recent_messages(sid, RecentLimit))
  IN /\ CheckEarly(provider, sessions[sid], LastActivity(sid), t)
     /\ CheckLate(scan.lv, scan.lr, t)

\* ------------------------------------------------------------------------
\* Presence loop: the for loop of _presence_check_loop up to its next await
\* ------------------------------------------------------------------------
\* Sessions whose check returns at lines 371-382 are passed over without an
\* await; for the first other session the check suspends in get_messages.
RECURSIVE LoopAdvance(_, _)
LoopAdvance(t, q) ==
  IF q = <<>>
  THEN LoopIdle
  ELSE IF CheckEarly(ai_provider, sessions[Head(q)], LastActivity(Head(q)), now)
       THEN LET scan == ScanMessages(recent_messages(Head(q), RecentLimit))
            IN [LoopIdle EXCEPT !.pc = "l_check", !.session = Head(q), !.queue = Tail(q),
                                !.lv = scan.lv, !.lr = scan.lr]
       ELSE LoopAdvance(t, Tail(q))

\* the loop's `except Exception`: log, go back to sleep
LoopCatch(t) == LoopIdle

\* ------------------------------------------------------------------------
\* Realtime fan-out (_broadcast_to_session)
\* ------------------------------------------------------------------------
\* what the caller does once the broadcast has returned, up to its next await
AfterBroadcast(t) ==
  LET u == [t EXCEPT !.it = NoIter]
  IN CASE t.ret = "m_cb" ->
            \* handle_message lines 188-197: callback, return
            \* (send_operator_message goes on with get_session, line 340)
            [Logged(u, "callback", t.message)
               EXCEPT !.pc = IF t.caller = "send_operator_message"
                             THEN "o_session" ELSE "done",
                      !.result = [NoResult EXCEPT !.message_id = t.message,
                                                  !.timestamp = t.lv]]
       [] t.ret = "t_history" ->
            \* _trigger_ai_response line 436: get_messages
            [u EXCEPT !.pc = "t_history"]
       [] t.ret = "t_end" ->
            \* _trigger_ai_response returns, the for loop goes on
            LoopAdvance(u, u.queue)
       [] t.ret = "r_session" ->
            \* handle_read line 279: get_session
            [u EXCEPT !.pc = "r_session"]
       [] t.ret = "p_end" ->
            \* the task set_operator_online created is over
            IdleTask

\* the iteration found the set changed in size: RuntimeError leaves the broadcast
BroadcastRaises(t) ==
  LET u == [t EXCEPT !.it = NoIter]
  IN CASE t.ret = "m_cb" -> [u EXCEPT !.pc = "done", !.err = "RuntimeError"]
       [] t.ret = "t_history" -> LoopCatch(u)
       [] t.ret = "t_end" ->
            \* inside the try of lines 438-462
            LoopAdvance(u, u.queue)
       [] t.ret = "r_session" -> [u EXCEPT !.pc = "done", !.err = "RuntimeError"]
       [] t.ret = "p_end" ->
            \* nobody awaits the task: the exception ends it
            IdleTask

\* lines 506-512 up to the first send_text
EnterBroadcast(p, t, sid, ret) ==
  LET u == Logged([t EXCEPT !.ret = ret], "broadcast", sid)
  IN IF Conns(sid) = {}
     THEN tasks' = [tasks EXCEPT ![p] = AfterBroadcast(u)]
     ELSE \E w \in Conns(sid) :
            tasks' = [tasks EXCEPT ![p] =
              Logged([u EXCEPT !.pc = "bc_send",
                               !.it = [sid |-> sid, size |-> Cardinality(Conns(sid)),
                                       seen |-> {w}, cur |-> w, dead |-> {}]],
                     "send", w)]

\* mutant: the first send that raises ends the pass
broadcast_to_session_stops_on_failure(p) ==
  LET t == tasks[p]
      conns == Conns(t.it.sid)
  IN /\ t.pc = "bc_send"
     /\ \E ok \in BOOLEAN :
          LET dead == IF ok THEN t.it.dead ELSE t.it.dead \cup {t.it.cur}
          IN IF Cardinality(conns) # t.it.size
             THEN /\ tasks' = [tasks EXCEPT ![p] = BroadcastRaises(t)]
                  /\ UNCHANGED websocket_connections
             ELSE IF conns \ t.it.seen = {} \/ ~ok
                  THEN /\ websocket_connections' =
                            [websocket_connections EXCEPT ![t.it.sid] = @ \ dead]
                       /\ tasks' = [tasks EXCEPT ![p] = AfterBroadcast(t)]
                  ELSE /\ \E w \in conns \ t.it.seen :
                            tasks' = [tasks EXCEPT ![p] =
                              Logged([t EXCEPT !.it.seen = @ \cup {w}, !.it.cur = w,
                                               !.it.dead = dead],
                                     "send", w)]
                       /\ UNCHANGED websocket_connections
     /\ UNCHANGED <<sessions, messages, now, ai_provider, operator_online,
                    last_operator_activity,
                    event_handlers, on_event_callback, response_content>>

\* send_text returned or raised (lines 512-514); next element, or prune (517-518)
broadcast_to_session(p) ==
  LET t == tasks[p]
      conns == Conns(t.it.sid)
  IN /\ t.pc = "bc_send"
     /\ \E ok \in BOOLEAN :
          LET dead == IF ok THEN t.it.dead ELSE t.it.dead \cup {t.it.cur}
          IN IF Cardinality(conns) # t.it.size
             THEN /\ tasks' = [tasks EXCEPT ![p] = BroadcastRaises(t)]
                  /\ UNCHANGED websocket_connections
             ELSE IF conns \ t.it.seen = {}
                  THEN /\ websocket_connections' =
                            [websocket_connections EXCEPT ![t.it.sid] = @ \ dead]
                       /\ tasks' = [tasks EXCEPT ![p] = AfterBroadcast(t)]
                  ELSE /\ \E w \in conns \ t.it.seen :
                            tasks' = [tasks EXCEPT ![p] =
                              Logged([t EXCEPT !.it.seen = @ \cup {w}, !.it.cur = w,
                                               !.it.dead = dead],
                                     "send", w)]
                       /\ UNCHANGED websocket_connections
     /\ UNCHANGED <<sessions, messages, now, ai_provider, operator_online,
                    last_operator_activity,
                    event_handlers, on_event_callback, response_content>>

\* mutant: the session's set is replaced by the new subscriber
Registered_replaces(conns, sid, w) ==
  [s \in DOMAIN conns \cup {sid} |-> IF s = sid THEN {w} ELSE conns[s]]

\* lines 495-497: the registry after register_websocket
Registered(conns, sid, w) ==
  IF sid \in DOMAIN conns
  THEN [conns EXCEPT ![sid] = @ \cup {w}]
  ELSE [s \in DOMAIN conns \cup {sid} |-> IF s = sid THEN {w} ELSE conns[s]]

\* lines 501-502: the registry after unregister_websocket
Unregistered(conns, sid, w) ==
  IF sid \in DOMAIN conns THEN [conns EXCEPT ![sid] = @ \ {w}] ELSE conns

register_websocket(sid, w) ==
  /\ websocket_connections' = Registered(websocket_connections, sid, w)
  /\ UNCHANGED <<sessions, messages, now, ai_provider, operator_online,
                 last_operator_activity, tasks,
                 event_handlers, on_event_callback, response_content>>

unregister_websocket(sid, w) ==
  /\ websocket_connections' = Unregistered(websocket_connections, sid, w)
  /\ UNCHANGED <<sessions, messages, now, ai_provider, operator_online,
                 last_operator_activity, tasks,
                 event_handlers, on_event_callback, response_content>>

\* lines 348-359: set the flag; one broadcast task per key of the registry
\* (at most one such task per session is followed at a time)
set_operator_online(online) ==
  /\ \A s \in DOMAIN websocket_connections : tasks[0 - s].pc = "idle"
  /\ operator_online' = online
  /\ tasks' = [p \in DOMAIN tasks |->
                 IF p \in PresenceTasks /\ (0 - p) \in DOMAIN websocket_connections
                 THEN [IdleTask EXCEPT !.op = "presence", !.pc = "p_start", !.sid = 0 - p,
                                       !.online = online]
                 ELSE tasks[p]]
  /\ UNCHANGED <<sessions, messages, now, ai_provider, last_operator_activity,
                 websocket_connections,
                 event_handlers, on_event_callback, response_content>>

\* the created task runs: _broadcast_to_session(session_id, presence)
presence_broadcast(p) ==
  LET t == tasks[p]
  IN /\ t.pc = "p_start"
     /\ EnterBroadcast(p, t, t.sid, "p_end")
     /\ UNCHANGED <<sessions, messages, now, ai_provider, operator_online,
                    last_operator_activity, websocket_connections,
                    event_handlers, on_event_callback, response_content>>

\* handle_presence, lines 226-232
handle_presence ==
  [online |-> operator_online, ai_enabled |-> ai_provider,
   ai_active_after |-> ai_takeover_delay]

Running(op) ==
  {q \in DOMAIN tasks : q > LoopTask /\ tasks[q].op = op /\ tasks[q].pc \notin {"idle", "done"}}

\* ------------------------------------------------------------------------
\* handle_connect
\* ------------------------------------------------------------------------
\* _generate_id: an id no session has yet
FreshSessionId == CHOOSE i \in SessionIds : i \notin DOMAIN sessions

\* mutant: the request's metadata replaces the stored one as it is
MergeMetadata_replace(old, new) == new

\* lines 129-134: keep the known geo fields, take the rest from the request
MergeMetadata(old, new) ==
  IF old.present
  THEN [new EXCEPT !.ip = IF old.ip # 0 THEN old.ip ELSE new.ip,
                   !.country = IF old.country # 0 THEN old.country ELSE new.country,
                   !.city = IF old.city # 0 THEN old.city ELSE new.city]
  ELSE new

\* mutant: the history is read with a limit, the latest message only
ConnectGetMessages_limited(t) ==
  [t EXCEPT !.pc = "c_messages", !.bi = 0,
            !.result = [NoResult EXCEPT
                          !.messages = MessageIds(recent_messages(t.session, 1))]]

\* line 139: get_messages
ConnectGetMessages(t) ==
  [t EXCEPT !.pc = "c_messages", !.bi = 0,
            !.result = [NoResult EXCEPT !.messages = MessageIds(get_messages(t.session))]]

\* lines 125-139 for a session that was found
ConnectResume(p, t) ==
  IF t.meta.present
  THEN /\ sessions' = [sessions EXCEPT
            ![t.session].metadata = MergeMetadata(sessions[t.session].metadata, t.meta),
            ![t.session].last_activity = now]
       /\ tasks' = [tasks EXCEPT ![p] =
            Logged([t EXCEPT !.pc = "c_updated"], "update_session", t.session)]
  ELSE /\ tasks' = [tasks EXCEPT ![p] = ConnectGetMessages(t)]
       /\ UNCHANGED sessions

\* lines 100-101: get_session_by_visitor_id
ConnectByVisitor(p, t) ==
  /\ IF VisitorSessions(t.vid) = {}
     THEN tasks' = [tasks EXCEPT ![p] = [t EXCEPT !.pc = "c_got_vid", !.session = None]]
     ELSE \E s \in MostRecentSessions(t.vid) :
            tasks' = [tasks EXCEPT ![p] =
              [t EXCEPT !.pc = "c_got_vid", !.session = s, !.seen_vid = TRUE]]
  /\ UNCHANGED sessions

\* lines 92-101: the first lookup
handle_connect(p, vid, sid, meta) ==
  LET t == [IdleTask EXCEPT !.op = "connect", !.vid = vid, !.sid = sid, !.meta = meta]
  IN /\ tasks[p].pc \in {"idle", "done"}
     /\ \/ Cardinality(DOMAIN sessions) + Cardinality(Running("connect")) < MaxSessions
        \/ sid \in DOMAIN sessions
        \/ VisitorSessions(vid) # {}
     /\ IF sid # None
        THEN /\ tasks' = [tasks EXCEPT ![p] =
                  [t EXCEPT !.pc = "c_got_id", !.session = get_session(sid),
                            !.seen_id = (sid \in DOMAIN sessions)]]
             /\ UNCHANGED sessions
        ELSE ConnectByVisitor(p, t)
     /\ UNCHANGED <<messages, now, ai_provider, operator_online,
                    last_operator_activity, websocket_connections,
                    event_handlers, on_event_callback, response_content>>

\* mutant: the session found by id is dropped, the visitor lookup decides
handle_connect_by_id_visitor_first(p) ==
  LET t == tasks[p]
  IN /\ t.pc = "c_got_id"
     /\ ConnectByVisitor(p, [t EXCEPT !.session = None])
     /\ UNCHANGED <<messages, now, ai_provider, operator_online,
                    last_operator_activity, websocket_connections,
                    event_handlers, on_event_callback, response_content>>

\* get_session returned (line 97)
handle_connect_by_id(p) ==
  LET t == tasks[p]
  IN /\ t.pc = "c_got_id"
     /\ IF t.session = None THEN ConnectByVisitor(p, t) ELSE ConnectResume(p, t)
     /\ UNCHANGED <<messages, now, ai_provider, operator_online,
                    last_operator_activity, websocket_connections,
                    event_handlers, on_event_callback, response_content>>

\* get_session_by_visitor_id returned (line 101): create (104-115) or resume
handle_connect_by_visitor(p) ==
  LET t == tasks[p]
  IN /\ t.pc = "c_got_vid"
     /\ IF t.session = None
        THEN /\ sessions' =
                  [s \in DOMAIN sessions \cup {FreshSessionId} |->
                     IF s = FreshSessionId THEN NewSession(t.vid, t.meta)
                     ELSE sessions[s]]
             /\ tasks' = [tasks EXCEPT ![p] =
                  Logged([t EXCEPT !.pc = "c_created", !.session = FreshSessionId,
                                   !.is_new = TRUE],
                         "create_session", FreshSessionId)]
        ELSE ConnectResume(p, t)
     /\ UNCHANGED <<messages, now, ai_provider, operator_online,
                    last_operator_activity, websocket_connections,
                    event_handlers, on_event_callback, response_content>>

\* lines 121-124 and 139: the new-session callback, then the history
ConnectCallback(t) == ConnectGetMessages(Logged(t, "on_new_session_callback", t.session))

\* create_session returned: _notify_bridges_new_session starts (line 118)
handle_connect_created(p) ==
  LET t == tasks[p]
  IN /\ t.pc = "c_created"
     /\ tasks' = [tasks EXCEPT ![p] =
          IF NumBridges > 0
          THEN Logged([t EXCEPT !.pc = "c_bridge", !.bi = 1], "on_new_session", 1)
          ELSE ConnectCallback(t)]
     /\ UNCHANGED <<sessions, messages, now, ai_provider, operator_online,
                    last_operator_activity, websocket_connections,
                    event_handlers, on_event_callback, response_content>>

\* mutant: no try/except around on_new_session, the bridge's error ends the request
notify_bridges_new_session_unguarded(p) ==
  LET t == tasks[p]
  IN /\ t.pc = "c_bridge"
     /\ \E ok \in BOOLEAN :
          tasks' = [tasks EXCEPT ![p] =
            IF ~ok
            THEN [Logged(t, "bridge_error", t.bi) EXCEPT !.pc = "done", !.err = "BridgeError"]
            ELSE IF t.bi < NumBridges
                 THEN Logged([t EXCEPT !.bi = t.bi + 1], "on_new_session", t.bi + 1)
                 ELSE ConnectCallback(t)]
     /\ UNCHANGED <<sessions, messages, now, ai_provider, operator_online,
                    last_operator_activity, websocket_connections,
                    event_handlers, on_event_callback, response_content>>

\* _notify_bridges_new_session, lines 526-530: bridge bi returned or raised
notify_bridges_new_session(p) ==
  LET t == tasks[p]
  IN /\ t.pc = "c_bridge"
     /\ \E ok \in BOOLEAN :
          LET u == IF ok THEN t ELSE Logged(t, "bridge_error", t.bi)
          IN tasks' = [tasks EXCEPT ![p] =
               IF t.bi < NumBridges
               THEN Logged([u EXCEPT !.bi = t.bi + 1], "on_new_session", t.bi + 1)
               ELSE ConnectCallback(u)]
     /\ UNCHANGED <<sessions, messages, now, ai_provider, operator_online,
                    last_operator_activity, websocket_connections,
                    event_handlers, on_event_callback, response_content>>

\* update_session returned (line 136): get_messages
handle_connect_updated(p) ==
  LET t == tasks[p]
  IN /\ t.pc = "c_updated"
     /\ tasks' = [tasks EXCEPT ![p] = ConnectGetMessages(t)]
     /\ UNCHANGED <<sessions, messages, now, ai_provider, operator_online,
                    last_operator_activity, websocket_connections,
                    event_handlers, on_event_callback, response_content>>

\* mutant: the response carries the flag stored with the session
handle_connect_return_snapshot(p) ==
  LET t == tasks[p]
  IN /\ t.pc = "c_messages"
     /\ tasks' = [tasks EXCEPT ![p] =
          [t EXCEPT !.pc = "done",
                    !.result = [t.result EXCEPT
                                  !.session_id = t.session,
                                  !.visitor_id = sessions[t.session].visitor_id,
                                  !.operator_online = sessions[t.session].operator_online]]]
     /\ UNCHANGED <<sessions, messages, now, ai_provider, operator_online,
                    last_operator_activity, websocket_connections,
                    event_handlers, on_event_callback, response_content>>

\* lines 141-147: the response
handle_connect_return(p) ==
  LET t == tasks[p]
  IN /\ t.pc = "c_messages"
     /\ tasks' = [tasks EXCEPT ![p] =
          [t EXCEPT !.pc = "done",
                    !.result = [t.result EXCEPT
                                  !.session_id = t.session,
                                  !.visitor_id = sessions[t.session].visitor_id,
                                  !.operator_online = operator_online]]]
     /\ UNCHANGED <<sessions, messages, now, ai_provider, operator_online,
                    last_operator_activity, websocket_connections,
                    event_handlers, on_event_callback, response_content>>

\* ------------------------------------------------------------------------
\* handle_message
\* ------------------------------------------------------------------------
\* history: the session is left ai_active by a takeover that is over and
\* saved no reply
TakeoverLeftNoReply(sid) ==
  /\ sid \in DOMAIN sessions
  /\ sessions[sid].ai_active
  /\ \A k \in 1..Len(messages) :
       messages[k].session_id = sid => messages[k].sender # AI
  /\ tasks[LoopTask].pc \in {"sleep", "l_sessions", "l_check"}

\* line 151: get_session
handle_message(p, sid, content, sender) ==
  /\ tasks[p].pc \in {"idle", "done"}
  /\ Len(messages) + Cardinality(Running("message")) < MaxMessages
  /\ tasks' = [tasks EXCEPT ![p] =
       [IdleTask EXCEPT !.op = "message", !.pc = "m_got", !.sid = sid,
                        !.content = content,
                        !.sender = sender, !.session = get_session(sid),
                        !.no_reply = TakeoverLeftNoReply(sid)]]
  /\ UNCHANGED <<sessions, messages, now, ai_provider, operator_online,
                 last_operator_activity, websocket_connections,
                 event_handlers, on_event_callback, response_content>>

\* mutant: no NotFound, the message is saved whatever get_session returned
handle_message_save_unchecked(p) ==
  LET t == tasks[p]
      id == Len(messages) + 1
  IN /\ t.pc = "m_got"
     /\ messages' = Append(messages, NewMessage(id, t.sid, t.content, t.sender))
     /\ tasks' = [tasks EXCEPT ![p] =
          Logged([t EXCEPT !.pc = "m_saved", !.message = id, !.lv = now,
                           !.session = t.sid],
                 "save_message", id)]
     /\ UNCHANGED <<sessions, now, ai_provider, operator_online,
                    last_operator_activity, websocket_connections,
                    event_handlers, on_event_callback, response_content>>

\* mutant: save_message is not awaited before the handler goes on
handle_message_save_not_persisted(p) ==
  LET t == tasks[p]
      id == Len(messages) + 1
  IN /\ t.pc = "m_got"
     /\ tasks' = [tasks EXCEPT ![p] =
          IF t.session = None
          THEN [t EXCEPT !.pc = "done", !.err = "ValueError"]
          ELSE Logged([t EXCEPT !.pc = "m_saved", !.message = id, !.lv = now],
                      "save_message", id)]
     /\ UNCHANGED <<sessions, messages, now, ai_provider, operator_online,
                    last_operator_activity, websocket_connections,
                    event_handlers, on_event_callback, response_content>>

\* lines 152-164: NotFound, or build the message and save it
handle_message_save(p) ==
  LET t == tasks[p]
      id == Len(messages) + 1
  IN /\ t.pc = "m_got"
     /\ IF t.session = None
        THEN /\ tasks' = [tasks EXCEPT ![p] = [t EXCEPT !.pc = "done", !.err = "ValueError"]]
             /\ UNCHANGED messages
        ELSE /\ messages' = Append(messages, NewMessage(id, t.sid, t.content, t.sender))
             /\ tasks' = [tasks EXCEPT ![p] =
                  Logged([t EXCEPT !.pc = "m_saved", !.message = id, !.lv = now],
                         "save_message", id)]
     /\ UNCHANGED <<sessions, now, ai_provider, operator_online,
                    last_operator_activity, websocket_connections,
                    event_handlers, on_event_callback, response_content>>

\* lines 167-168: stamp last_activity, update_session
handle_message_update(p) ==
  LET t == tasks[p]
  IN /\ t.pc = "m_saved"
     /\ sessions' = [sessions EXCEPT ![t.session].last_activity = now]
     /\ tasks' = [tasks EXCEPT ![p] =
          Logged([t EXCEPT !.pc = "m_updated"], "update_session", t.session)]
     /\ UNCHANGED <<messages, now, ai_provider, operator_online,
                    last_operator_activity, websocket_connections,
                    event_handlers, on_event_callback, response_content>>

\* mutant: the sender test of line 179 is missing, operator messages go to the bridges
handle_message_sender_notifies_all(p) ==
  LET t == tasks[p]
  IN /\ t.pc = "m_updated"
     /\ IF t.sender = OPERATOR
        THEN /\ last_operator_activity' =
                  [last_operator_activity EXCEPT ![t.sid] = now]
             /\ IF sessions[t.session].ai_active
                THEN /\ sessions' = [sessions EXCEPT ![t.session].ai_active = FALSE]
                     /\ tasks' = [tasks EXCEPT ![p] =
                          Logged([t EXCEPT !.pc = "m_cleared"], "clear_ai", t.session)]
                ELSE /\ tasks' = [tasks EXCEPT ![p] =
                          Logged([t EXCEPT !.pc = "m_bridge", !.bi = 1], "on_message", 1)]
                     /\ UNCHANGED sessions
        ELSE /\ tasks' = [tasks EXCEPT ![p] =
                  Logged([t EXCEPT !.pc = "m_bridge", !.bi = 1], "on_message", 1)]
             /\ UNCHANGED <<sessions, last_operator_activity>>
     /\ UNCHANGED <<messages, now, ai_provider, operator_online, websocket_connections,
                    event_handlers, on_event_callback, response_content>>

\* mutant: the operator's activity is recorded only when ai_active was set
handle_message_sender_activity_on_clear(p) ==
  LET t == tasks[p]
  IN /\ t.pc = "m_updated"
     /\ IF t.sender = OPERATOR
        THEN IF sessions[t.session].ai_active
             THEN /\ last_operator_activity' =
                       [last_operator_activity EXCEPT ![t.sid] = now]
                  /\ sessions' = [sessions EXCEPT ![t.session].ai_active = FALSE]
                  /\ tasks' = [tasks EXCEPT ![p] =
                       Logged([t EXCEPT !.pc = "m_cleared"], "clear_ai", t.session)]
             ELSE /\ EnterBroadcast(p, t, t.sid, "m_cb")
                  /\ UNCHANGED <<sessions, last_operator_activity>>
        ELSE /\ IF t.sender = VISITOR /\ NumBridges > 0
                THEN tasks' = [tasks EXCEPT ![p] =
                       Logged([t EXCEPT !.pc = "m_bridge", !.bi = 1], "on_message", 1)]
                ELSE EnterBroadcast(p, t, t.sid, "m_cb")
             /\ UNCHANGED <<sessions, last_operator_activity>>
     /\ UNCHANGED <<messages, now, ai_provider, operator_online, websocket_connections,
                    event_handlers, on_event_callback, response_content>>

\* mutant: the operator branch records the activity but leaves ai_active set
handle_message_sender_keeps_ai(p) ==
  LET t == tasks[p]
  IN /\ t.pc = "m_updated"
     /\ IF t.sender = OPERATOR
        THEN /\ last_operator_activity' =
                  [last_operator_activity EXCEPT ![t.sid] = now]
             /\ EnterBroadcast(p, t, t.sid, "m_cb")
        ELSE /\ IF t.sender = VISITOR /\ NumBridges > 0
                THEN tasks' = [tasks EXCEPT ![p] =
                       Logged([t EXCEPT !.pc = "m_bridge", !.bi = 1], "on_message", 1)]
                ELSE EnterBroadcast(p, t, t.sid, "m_cb")
             /\ UNCHANGED last_operator_activity
     /\ UNCHANGED <<sessions, messages, now, ai_provider, operator_online,
                    websocket_connections,
                    event_handlers, on_event_callback, response_content>>

\* lines 171-186: the operator branch, the visitor branch, the broadcast
handle_message_sender(p) ==
  LET t == tasks[p]
  IN /\ t.pc = "m_updated"
     /\ IF t.sender = OPERATOR
        THEN /\ last_operator_activity' =
                  [last_operator_activity EXCEPT ![t.sid] = now]
             /\ IF sessions[t.session].ai_active
                THEN /\ sessions' = [sessions EXCEPT ![t.session].ai_active = FALSE]
                     /\ tasks' = [tasks EXCEPT ![p] =
                          Logged([t EXCEPT !.pc = "m_cleared"], "clear_ai", t.session)]
                ELSE /\ EnterBroadcast(p, t, t.sid, "m_cb")
                     /\ UNCHANGED sessions
        ELSE /\ IF t.sender = VISITOR /\ NumBridges > 0
                THEN tasks' = [tasks EXCEPT ![p] =
                       Logged([t EXCEPT !.pc = "m_bridge", !.bi = 1], "on_message", 1)]
                ELSE EnterBroadcast(p, t, t.sid, "m_cb")
             /\ UNCHANGED <<sessions, last_operator_activity>>
     /\ UNCHANGED <<messages, now, ai_provider, operator_online, websocket_connections,
                    event_handlers, on_event_callback, response_content>>

\* line 176 returned: on to the broadcast
handle_message_cleared(p) ==
  LET t == tasks[p]
  IN /\ t.pc = "m_cleared"
     /\ EnterBroadcast(p, t, t.sid, "m_cb")
     /\ UNCHANGED <<sessions, messages, now, ai_provider, operator_online,
                    last_operator_activity, websocket_connections,
                    event_handlers, on_event_callback, response_content>>

\* mutant: no try/except around on_message, the bridge's error ends the request
notify_bridges_message_unguarded(p) ==
  LET t == tasks[p]
  IN /\ t.pc = "m_bridge"
     /\ \E ok \in BOOLEAN :
          IF ~ok
          THEN tasks' = [tasks EXCEPT ![p] =
                 [Logged(t, "bridge_error", t.bi) EXCEPT !.pc = "done", !.err = "BridgeError"]]
          ELSE IF t.bi < NumBridges
               THEN tasks' = [tasks EXCEPT ![p] =
                      Logged([t EXCEPT !.bi = t.bi + 1], "on_message", t.bi + 1)]
               ELSE EnterBroadcast(p, [t EXCEPT !.bi = 0], t.sid, "m_cb")
     /\ UNCHANGED <<sessions, messages, now, ai_provider, operator_online,
                    last_operator_activity, websocket_connections,
                    event_handlers, on_event_callback, response_content>>

\* _notify_bridges_message, lines 534-538: bridge bi returned or raised
notify_bridges_message(p) ==
  LET t == tasks[p]
  IN /\ t.pc = "m_bridge"
     /\ \E ok \in BOOLEAN :
          LET u == IF ok THEN t ELSE Logged(t, "bridge_error", t.bi)
          IN IF t.bi < NumBridges
             THEN tasks' = [tasks EXCEPT ![p] =
                    Logged([u EXCEPT !.bi = t.bi + 1], "on_message", t.bi + 1)]
             ELSE EnterBroadcast(p, [u EXCEPT !.bi = 0], t.sid, "m_cb")
     /\ UNCHANGED <<sessions, messages, now, ai_provider, operator_online,
                    last_operator_activity, websocket_connections,
                    event_handlers, on_event_callback, response_content>>

\* ------------------------------------------------------------------------
\* send_operator_message
\* ------------------------------------------------------------------------
\* the source name that stands for no bridge (line 343)
Api == NumBridges + 1

\* line 343: source_bridge or "api"
SourceTag(source) == IF source = None THEN Api ELSE source

\* the longest content SendMessageRequest accepts (stands for 4000)
MaxContent == 1

\* the content lengths a caller or the AI provider may come with
Contents == 0..(MaxContent + 1)

\* SendMessageRequest.content: Field(max_length=4000)
ValidContent(content) == content <= MaxContent

\* lines 322-328: build the SendMessageRequest (pydantic validates it), then
\* handle_message as the operator
send_operator_message(p, sid, content, source) ==
  /\ tasks[p].pc \in {"idle", "done"}
  /\ Len(messages) + Cardinality(Running("message")) < MaxMessages
  /\ tasks' = [tasks EXCEPT ![p] =
       IF ValidContent(content)
       THEN [IdleTask EXCEPT !.op = "message", !.pc = "m_got", !.sid = sid,
                             !.content = content,
                             !.sender = OPERATOR, !.session = get_session(sid),
                             !.no_reply = TakeoverLeftNoReply(sid),
                             !.caller = "send_operator_message",
                             !.source_bridge = source]
       ELSE [IdleTask EXCEPT !.op = "message", !.pc = "done", !.sid = sid,
                             !.content = content, !.sender = OPERATOR,
                             !.caller = "send_operator_message",
                             !.err = "ValidationError"]]
  /\ UNCHANGED <<sessions, messages, now, ai_provider, operator_online,
                 last_operator_activity, websocket_connections,
                 event_handlers, on_event_callback, response_content>>

\* fastapi.py lines 160-167: the body is parsed into a SendMessageRequest
\* (a content that is too long is answered 422), then handle_message
send_message(p, sid, content, sender) ==
  IF ValidContent(content)
  THEN handle_message(p, sid, content, sender)
  ELSE /\ tasks[p].pc \in {"idle", "done"}
       /\ tasks' = [tasks EXCEPT ![p] =
            [IdleTask EXCEPT !.op = "message", !.pc = "done", !.sid = sid,
                             !.content = content, !.sender = sender,
                             !.err = "ValidationError"]]
       /\ UNCHANGED <<sessions, messages, now, ai_provider, operator_online,
                      last_operator_activity, websocket_connections,
                      event_handlers, on_event_callback, response_content>>

\* lines 340-346: get_session returned; the first bridge, or the return
send_operator_message_session(p) ==
  LET t == tasks[p]
  IN /\ t.pc = "o_session"
     /\ tasks' = [tasks EXCEPT ![p] =
          IF get_session(t.sid) # None /\ NumBridges > 0
          THEN Logged([t EXCEPT !.pc = "o_bridge", !.bi = 1,
                                !.tag = SourceTag(t.source_bridge)],
                      "on_operator_message", 1)
          ELSE [t EXCEPT !.pc = "done"]]
     /\ UNCHANGED <<sessions, messages, now, ai_provider, operator_online,
                    last_operator_activity, websocket_connections,
                    event_handlers, on_event_callback, response_content>>

\* _notify_bridges_operator_message, lines 548-554: bridge bi returned or raised
notify_bridges_operator_message(p) ==
  LET t == tasks[p]
  IN /\ t.pc = "o_bridge"
     /\ \E ok \in BOOLEAN :
          LET u == IF ok THEN t ELSE Logged(t, "bridge_error", t.bi)
          IN tasks' = [tasks EXCEPT ![p] =
               IF t.bi < NumBridges
               THEN Logged([u EXCEPT !.bi = t.bi + 1], "on_operator_message", t.bi + 1)
               ELSE [u EXCEPT !.pc = "done", !.bi = 0]]
     /\ UNCHANGED <<sessions, messages, now, ai_provider, operator_online,
                    last_operator_activity, websocket_connections,
                    event_handlers, on_event_callback, response_content>>

\* fastapi.py send_message: the status the router answers with
send_message_status(t) ==
  IF t.err = "" THEN 200 ELSE IF t.err = "ValueError" THEN 404 ELSE 500

\* ------------------------------------------------------------------------
\* handle_read
\* ------------------------------------------------------------------------
\* the bridges that have an on_message_read (line 300)
OnMessageRead == {1}

\* mutant: read stamps delivered_at whether or not it was set
MarkMessage_overwrites(m, status, t) ==
  [m EXCEPT !.status = status,
            !.delivered_at = IF status \in {"delivered", "read"} THEN t ELSE m.delivered_at,
            !.read_at = IF status = "read" THEN t ELSE m.read_at]

\* mutant: marking a message also stamps it with the time of the receipt
MarkMessage_restamps(m, status, t) ==
  [m EXCEPT !.status = status, !.timestamp = t,
            !.delivered_at = IF status = "delivered" THEN t
                             ELSE IF status = "read" /\ m.delivered_at = None THEN t
                             ELSE m.delivered_at,
            !.read_at = IF status = "read" THEN t ELSE m.read_at]

\* lines 246-251: the new status and its timestamps
MarkMessage(m, status, t) ==
  [m EXCEPT !.status = status,
            !.delivered_at = IF status = "delivered" THEN t
                             ELSE IF status = "read" /\ m.delivered_at = None THEN t
                             ELSE m.delivered_at,
            !.read_at = IF status = "read" THEN t ELSE m.read_at]

\* line 285
ReadReturn(t) ==
  [t EXCEPT !.pc = "done", !.result = [NoResult EXCEPT !.updated = t.updated]]

\* lines 299-302: on to the next bridge that has an on_message_read
ReadNotify(t, from) ==
  LET rest == {b \in OnMessageRead \cap Bridges : b >= from}
  IN IF rest = {} THEN ReadReturn(t)
     ELSE LET b == CHOOSE x \in rest : \A y \in rest : x <= y
          IN Logged([t EXCEPT !.pc = "r_bridge", !.bi = b], "on_message_read", b)

\* lines 242-243 and 257-271: the next message id, or the broadcast
ReadNext(p, t) ==
  IF t.mi < Len(t.message_ids)
  THEN tasks' = [tasks EXCEPT ![p] = [t EXCEPT !.pc = "r_get", !.mi = t.mi + 1]]
  ELSE IF t.updated > 0
       THEN EnterBroadcast(p, t, t.sid, "r_session")
       ELSE tasks' = [tasks EXCEPT ![p] = ReadReturn(t)]

\* lines 239-243: get_message of the first id
handle_read(p, sid, ids, status) ==
  LET t == [IdleTask EXCEPT !.op = "read", !.sid = sid, !.message_ids = ids,
                            !.status = status, !.stamp = now]
  IN /\ tasks[p].pc \in {"idle", "done"}
     /\ ReadNext(p, t)
     /\ UNCHANGED <<sessions, messages, now, ai_provider, operator_online,
                    last_operator_activity, websocket_connections,
                    event_handlers, on_event_callback, response_content>>

\* mutant: the message is marked whatever session it belongs to
handle_read_message_any_session(p) ==
  LET t == tasks[p]
      k == get_message(t.message_ids[t.mi])
  IN /\ t.pc = "r_get"
     /\ IF k # None
        THEN /\ messages' = save_message(messages,
                                         MarkMessage(messages[k], t.status, t.stamp))
             /\ tasks' = [tasks EXCEPT ![p] =
                  Logged([t EXCEPT !.pc = "r_saved", !.updated = t.updated + 1],
                         "save_message", messages[k].id)]
        ELSE /\ ReadNext(p, t)
             /\ UNCHANGED messages
     /\ UNCHANGED <<sessions, now, ai_provider, operator_online,
                    last_operator_activity, websocket_connections,
                    event_handlers, on_event_callback, response_content>>

\* lines 243-254: get_message returned; a message of the session is marked and saved
handle_read_message(p) ==
  LET t == tasks[p]
      k == get_message(t.message_ids[t.mi])
  IN /\ t.pc = "r_get"
     /\ IF k # None /\ messages[k].session_id = t.sid
        THEN /\ messages' = save_message(messages,
                                         MarkMessage(messages[k], t.status, t.stamp))
             /\ tasks' = [tasks EXCEPT ![p] =
                  Logged([t EXCEPT !.pc = "r_saved", !.updated = t.updated + 1],
                         "save_message", messages[k].id)]
        ELSE /\ ReadNext(p, t)
             /\ UNCHANGED messages
     /\ UNCHANGED <<sessions, now, ai_provider, operator_online,
                    last_operator_activity, websocket_connections,
                    event_handlers, on_event_callback, response_content>>

\* line 255: save_message returned
handle_read_saved(p) ==
  LET t == tasks[p]
  IN /\ t.pc = "r_saved"
     /\ ReadNext(p, t)
     /\ UNCHANGED <<sessions, messages, now, ai_provider, operator_online,
                    last_operator_activity, websocket_connections,
                    event_handlers, on_event_callback, response_content>>

\* lines 279-283: get_session returned
handle_read_session(p) ==
  LET t == tasks[p]
  IN /\ t.pc = "r_session"
     /\ tasks' = [tasks EXCEPT ![p] =
          IF get_session(t.sid) = None THEN ReadReturn(t) ELSE ReadNotify(t, 1)]
     /\ UNCHANGED <<sessions, messages, now, ai_provider, operator_online,
                    last_operator_activity, websocket_connections,
                    event_handlers, on_event_callback, response_content>>

\* _notify_bridges_read, lines 301-304: on_message_read of bridge bi returned or raised
notify_bridges_read(p) ==
  LET t == tasks[p]
  IN /\ t.pc = "r_bridge"
     /\ \E ok \in BOOLEAN :
          LET u == IF ok THEN t ELSE Logged(t, "bridge_error", t.bi)
          IN tasks' = [tasks EXCEPT ![p] = ReadNotify(u, t.bi + 1)]
     /\ UNCHANGED <<sessions, messages, now, ai_provider, operator_online,
                    last_operator_activity, websocket_connections,
                    event_handlers, on_event_callback, response_content>>

\* ------------------------------------------------------------------------
\* _presence_check_loop, _check_ai_takeover, _trigger_ai_response
\* ------------------------------------------------------------------------
\* lines 472-479: the sleep is over; get_all_sessions
presence_check_loop(p) ==
  LET t == tasks[p]
  IN /\ t.pc = "sleep"
     /\ ai_provider
     /\ tasks' = [tasks EXCEPT ![p] =
          [t EXCEPT !.pc = "l_sessions", !.queue = get_all_sessions]]
     /\ UNCHANGED <<sessions, messages, now, ai_provider, operator_online,
                    last_operator_activity, websocket_connections,
                    event_handlers, on_event_callback, response_content>>

\* line 480: the for loop starts
presence_check_loop_for(p) ==
  LET t == tasks[p]
  IN /\ t.pc = "l_sessions"
     /\ tasks' = [tasks EXCEPT ![p] = LoopAdvance(t, t.queue)]
     /\ UNCHANGED <<sessions, messages, now, ai_provider, operator_online,
                    last_operator_activity, websocket_connections,
                    event_handlers, on_event_callback, response_content>>

\* get_messages of line 385 returned: lines 386-408, then line 482 and 412-417
check_ai_takeover_resume(p) ==
  LET t == tasks[p]
  IN /\ t.pc = "l_check"
     /\ IF CheckLate(t.lv, t.lr, now)
        THEN /\ sessions' = [sessions EXCEPT ![t.session].ai_active = TRUE,
                                              ![t.session].takeovers = @ + 1]
             /\ tasks' = [tasks EXCEPT ![p] =
                  [t EXCEPT !.pc = "t_updated", !.returns = TRUE,
                            !.log = <<Ev("ai_takeover", t.session)>>]]
        ELSE /\ tasks' = [tasks EXCEPT ![p] = LoopAdvance(t, t.queue)]
             /\ UNCHANGED sessions
     /\ UNCHANGED <<messages, now, ai_provider, operator_online,
                    last_operator_activity, websocket_connections,
                    event_handlers, on_event_callback, response_content>>

\* lines 420-433: update_session returned; first bridge, or the broadcast
trigger_ai_response_notify(p) ==
  LET t == tasks[p]
  IN /\ t.pc = "t_updated"
     /\ IF NumBridges > 0
        THEN tasks' = [tasks EXCEPT ![p] =
               Logged([t EXCEPT !.pc = "t_bridge", !.bi = 1], "on_ai_takeover", 1)]
        ELSE EnterBroadcast(p, t, t.session, "t_history")
     /\ UNCHANGED <<sessions, messages, now, ai_provider, operator_online,
                    last_operator_activity, websocket_connections,
                    event_handlers, on_event_callback, response_content>>

\* lines 420-433: bridge bi returned or raised
trigger_ai_response_bridge(p) ==
  LET t == tasks[p]
  IN /\ t.pc = "t_bridge"
     /\ \E ok \in BOOLEAN :
          LET u == IF ok THEN t ELSE Logged(t, "bridge_error", t.bi)
          IN IF t.bi < NumBridges
             THEN tasks' = [tasks EXCEPT ![p] =
                    Logged([u EXCEPT !.bi = t.bi + 1], "on_ai_takeover", t.bi + 1)]
             ELSE EnterBroadcast(p, [u EXCEPT !.bi = 0], t.session, "t_history")
     /\ UNCHANGED <<sessions, messages, now, ai_provider, operator_online,
                    last_operator_activity, websocket_connections,
                    event_handlers, on_event_callback, response_content>>

\* lines 436-442: the history is back; ask the provider
trigger_ai_response_generate(p) ==
  LET t == tasks[p]
  IN /\ t.pc = "t_history"
     /\ tasks' = [tasks EXCEPT ![p] =
          Logged([t EXCEPT !.pc = "t_generate"], "generate_response", t.session)]
     /\ sessions' = [sessions EXCEPT ![t.session].called = Len(get_messages(t.session))]
     /\ UNCHANGED <<messages, now, ai_provider, operator_online,
                    last_operator_activity, websocket_connections,
                    event_handlers, on_event_callback, response_content>>

\* mutant: no try/except in _trigger_ai_response, the provider's error
\* reaches the loop's handler
trigger_ai_response_save_unguarded(p) ==
  LET t == tasks[p]
      id == Len(messages) + 1
  IN /\ t.pc = "t_generate"
     /\ \E ok \in BOOLEAN :
          IF ok
          THEN /\ messages' = Append(messages, NewMessage(id, t.session, response_content, AI))
               /\ tasks' = [tasks EXCEPT ![p] =
                    Logged([t EXCEPT !.pc = "t_saved", !.message = id],
                           "save_message", id)]
          ELSE /\ tasks' = [tasks EXCEPT ![p] = LoopCatch(t)]
               /\ UNCHANGED messages
     /\ UNCHANGED <<sessions, now, ai_provider, operator_online,
                    last_operator_activity, websocket_connections,
                    event_handlers, on_event_callback, response_content>>

\* lines 440-453 and 461-462: the provider answered, or raised
trigger_ai_response_save(p) ==
  LET t == tasks[p]
      id == Len(messages) + 1
  IN /\ t.pc = "t_generate"
     /\ \E ok \in BOOLEAN :
          IF ok
          THEN /\ messages' = Append(messages, NewMessage(id, t.session, response_content, AI))
               /\ tasks' = [tasks EXCEPT ![p] =
                    Logged([t EXCEPT !.pc = "t_saved", !.message = id],
                           "save_message", id)]
          ELSE /\ tasks' = [tasks EXCEPT ![p] =
                    LoopAdvance(t, t.queue)]
               /\ UNCHANGED messages
     /\ UNCHANGED <<sessions, now, ai_provider, operator_online,
                    last_operator_activity, websocket_connections,
                    event_handlers, on_event_callback, response_content>>

\* lines 455-459: the reply is saved; broadcast it
trigger_ai_response_broadcast(p) ==
  LET t == tasks[p]
  IN /\ t.pc = "t_saved"
     /\ EnterBroadcast(p, t, t.session, "t_end")
     /\ UNCHANGED <<sessions, messages, now, ai_provider, operator_online,
                    last_operator_activity, websocket_connections,
                    event_handlers, on_event_callback, response_content>>

\* stop, lines 76-81: cancel the loop task and await it.  CancelledError is
\* raised at the await the loop is suspended in; no `except Exception` on the
\* way catches it (lines 461, 513), line 485 ends the loop.  The record keeps
\* what the loop was doing.
stop(p) ==
  LET t == tasks[p]
  IN /\ t.op = "loop"
     /\ t.pc \notin {"cancelled", "s_destroy", "stopped"}
     /\ tasks' = [tasks EXCEPT ![p] = Logged([t EXCEPT !.pc = "cancelled", !.it = NoIter],
                                            "cancelled", t.session)]
     /\ UNCHANGED <<sessions, messages, now, ai_provider, operator_online,
                    last_operator_activity, websocket_connections,
                    event_handlers, on_event_callback, response_content>>

\* stop, lines 83-84: bridge.destroy() one bridge after the other; an error
\* of a bridge leaves stop
stop_destroy(p) ==
  LET t == tasks[p]
  IN /\ t.pc \in {"cancelled", "s_destroy"}
     /\ IF t.pc = "cancelled"
        THEN tasks' = [tasks EXCEPT ![p] =
               IF NumBridges > 0
               THEN Logged([t EXCEPT !.pc = "s_destroy", !.bi = 1], "destroy", 1)
               ELSE [t EXCEPT !.pc = "stopped"]]
        ELSE \E ok \in BOOLEAN :
               tasks' = [tasks EXCEPT ![p] =
                 IF ~ok THEN [t EXCEPT !.pc = "stopped", !.err = "BridgeError"]
                 ELSE IF t.bi < NumBridges
                      THEN Logged([t EXCEPT !.bi = t.bi + 1], "destroy", t.bi + 1)
                      ELSE [t EXCEPT !.pc = "stopped"]]
     /\ UNCHANGED <<sessions, messages, now, ai_provider, operator_online,
                    last_operator_activity, websocket_connections,
                    event_handlers, on_event_callback, response_content>>

\* the clock
Tick ==
  /\ now < MaxTime
  /\ now' = now + 1
  /\ UNCHANGED <<sessions, messages, ai_provider, operator_online,
                 last_operator_activity, websocket_connections, tasks,
                 event_handlers, on_event_callback, response_content>>

\* ------------------------------------------------------------------------
\* The core after construction
\* ------------------------------------------------------------------------
Init ==
  /\ sessions = [s \in {} |-> 0]
  /\ messages = <<>>
  /\ now = 1
  /\ ai_provider \in BOOLEAN
  /\ event_handlers = NoHandlers
  /\ on_event_callback = FALSE
  /\ response_content = DefaultContent
  /\ operator_online = FALSE
  /\ last_operator_activity = [s \in SessionIds |-> None]
  /\ websocket_connections = [s \in {} |-> {}]
  /\ tasks = [p \in Tasks |-> IF p = LoopTask THEN LoopIdle ELSE IdleTask]

Next ==
  \/ \E p \in Procs, sid \in {None} \cup SessionIds, meta \in {NoMeta, PageMeta} :
        handle_connect(p, "v1", sid, meta)
  \/ \E p \in Procs : handle_connect_by_id(p)
  \/ \E p \in Procs : handle_connect_by_visitor(p)
  \/ \E p \in Procs : handle_connect_created(p)
  \/ \E p \in Procs : notify_bridges_new_session(p)
  \/ \E p \in Procs : handle_connect_updated(p)
  \/ \E p \in Procs : handle_connect_return(p)
  \/ \E p \in Procs, sid \in SessionIds, sender \in {VISITOR, OPERATOR} :
        handle_message(p, sid, DefaultContent, sender)
  \/ \E p \in Procs : handle_message_save(p)
  \/ \E p \in Procs : handle_message_update(p)
  \/ \E p \in Procs : handle_message_sender(p)
  \/ \E p \in Procs : handle_message_cleared(p)
  \/ \E p \in Procs : notify_bridges_message(p)
  \/ \E p \in Tasks : broadcast_to_session(p)
  \/ \E sid \in DOMAIN sessions, w \in WS : register_websocket(sid, w)
  \/ \E sid \in DOMAIN sessions, w \in WS : unregister_websocket(sid, w)
  \/ presence_check_loop(LoopTask)
  \/ presence_check_loop_for(LoopTask)
  \/ check_ai_takeover_resume(LoopTask)
  \/ trigger_ai_response_notify(LoopTask)
  \/ trigger_ai_response_bridge(LoopTask)
  \/ trigger_ai_response_generate(LoopTask)
  \/ trigger_ai_response_save(LoopTask)
  \/ trigger_ai_response_broadcast(LoopTask)
  \/ Tick

Spec == Init /\ [][Next]_vars

\* ------------------------------------------------------------------------
\* The connect protocol alone, two visitors
\* ------------------------------------------------------------------------
NextConnect ==
  \/ \E p \in Procs, vid \in Visitors, sid \in {None} \cup SessionIds,
        meta \in {NoMeta} \cup MetaChoices : handle_connect(p, vid, sid, meta)
  \/ \E p \in Procs : handle_connect_by_id(p)
  \/ \E p \in Procs : handle_connect_by_visitor(p)
  \/ \E p \in Procs : handle_connect_created(p)
  \/ \E p \in Procs : notify_bridges_new_session(p)
  \/ \E p \in Procs : handle_connect_updated(p)
  \/ \E p \in Procs : handle_connect_return(p)
  \/ Tick

SpecConnect == Init /\ [][NextConnect]_vars

\* ------------------------------------------------------------------------
\* Session creation while the operator goes online and offline
\* ------------------------------------------------------------------------
NextCreation ==
  \/ \E p \in Procs, vid \in Visitors, sid \in {None} \cup SessionIds :
        handle_connect(p, vid, sid, NoMeta)
  \/ \E p \in Procs : handle_connect_by_id(p)
  \/ \E p \in Procs : handle_connect_by_visitor(p)
  \/ \E p \in Procs : handle_connect_created(p)
  \/ \E p \in Procs : notify_bridges_new_session(p)
  \/ \E p \in Procs : handle_connect_return(p)
  \/ \E online \in BOOLEAN : set_operator_online(online)

SpecCreation == Init /\ [][NextCreation]_vars

\* ------------------------------------------------------------------------
\* Several connects of one visitor, without a session id, in flight together
\* ------------------------------------------------------------------------
ConnectTasks == 1..NumConnects

InitConcurrent ==
  /\ sessions = [s \in {} |-> 0]
  /\ messages = <<>>
  /\ now = 1
  /\ ai_provider \in BOOLEAN
  /\ event_handlers = NoHandlers
  /\ on_event_callback = FALSE
  /\ response_content = DefaultContent
  /\ operator_online = FALSE
  /\ last_operator_activity = [s \in SessionIds |-> None]
  /\ websocket_connections = [s \in {} |-> {}]
  /\ tasks = [p \in {LoopTask} \cup ConnectTasks |->
                IF p = LoopTask THEN LoopIdle ELSE IdleTask]

NextConcurrent ==
  \/ \E p \in ConnectTasks : handle_connect(p, "v1", None, NoMeta)
  \/ \E p \in ConnectTasks : handle_connect_by_visitor(p)
  \/ \E p \in ConnectTasks : handle_connect_created(p)
  \/ \E p \in ConnectTasks : notify_bridges_new_session(p)
  \/ \E p \in ConnectTasks : handle_connect_return(p)

SpecConcurrent == InitConcurrent /\ [][NextConcurrent]_vars

\* ------------------------------------------------------------------------
\* The takeover decision on its own: one session, every short history
\* ------------------------------------------------------------------------
Histories(t) ==
  UNION {{h \in [1..n -> Sender \X (1..t)] :
            \A i \in 1..n : i < n => h[i][2] <= h[i + 1][2]} : n \in 0..MaxHist}

HistoryMessages(h) ==
  [i \in 1..Len(h) |->
     [id |-> i, session_id |-> 1, sender |-> h[i][1], timestamp |-> h[i][2],
      status |-> "sent", delivered_at |-> None, read_at |-> None]]

\* a takeover needs a provider; operator activity is recorded by an operator message
InitDecision ==
  /\ now \in 1..MaxNow
  /\ ai_provider \in BOOLEAN
  /\ event_handlers = NoHandlers
  /\ on_event_callback = FALSE
  /\ response_content = DefaultContent
  /\ operator_online = FALSE
  /\ websocket_connections = [s \in {} |-> {}]
  /\ tasks = [p \in Tasks |-> IF p = LoopTask THEN LoopIdle ELSE IdleTask]
  /\ \E h \in Histories(now), la \in 0..now, active \in BOOLEAN :
       /\ active => ai_provider
       /\ la # None => \E i \in 1..Len(h) : h[i][1] = OPERATOR /\ h[i][2] <= la
       /\ messages = HistoryMessages(h)
       /\ last_operator_activity = [s \in SessionIds |-> IF s = 1 THEN la ELSE None]
       /\ sessions = (1 :> [visitor_id |-> "v1", created_at |-> 1, last_activity |-> 1,
                            operator_online |-> FALSE, ai_active |-> active,
                            metadata |-> NoMeta, takeovers |-> 0])

\* one call of _check_ai_takeover(session 1), its result kept in the task
check_ai_takeover_call(p) ==
  /\ tasks[p].pc = "sleep"
  /\ tasks' = [tasks EXCEPT ![p] =
       [tasks[p] EXCEPT !.pc = "decided", !.session = 1, !.at = now,
                        !.returns = check_ai_takeover(ai_provider, 1, now)]]
  /\ UNCHANGED <<sessions, messages, now, ai_provider, operator_online,
                 last_operator_activity, websocket_connections,
                 event_handlers, on_event_callback, response_content>>

NextDecision == check_ai_takeover_call(LoopTask)

SpecDecision == InitDecision /\ [][NextDecision]_vars

\* ------------------------------------------------------------------------
\* The presence loop left alone with one unanswered visitor message: no
\* request arrives; subscribers come and go.  The loop (a task of the event
\* loop, core.py line 72) and the clock always get their turn.
\* ------------------------------------------------------------------------
InitTakeover ==
  /\ now = 1
  /\ operator_online = FALSE
  /\ ai_provider = TRUE
  /\ event_handlers = NoHandlers
  /\ on_event_callback = FALSE
  /\ response_content = DefaultContent
  /\ sessions = (1 :> NewSession("v1", NoMeta))
  /\ messages = <<NewMessage(1, 1, DefaultContent, VISITOR)>>
  /\ last_operator_activity = [s \in SessionIds |-> None]
  /\ websocket_connections \in {[s \in {} |-> {}]} \cup {(1 :> c) : c \in SUBSET WS}
  /\ tasks = [p \in Tasks |-> IF p = LoopTask THEN LoopIdle ELSE IdleTask]

LoopStep ==
  \/ presence_check_loop(LoopTask)
  \/ presence_check_loop_for(LoopTask)
  \/ check_ai_takeover_resume(LoopTask)
  \/ trigger_ai_response_notify(LoopTask)
  \/ trigger_ai_response_bridge(LoopTask)
  \/ trigger_ai_response_generate(LoopTask)
  \/ trigger_ai_response_save(LoopTask)
  \/ trigger_ai_response_broadcast(LoopTask)
  \/ broadcast_to_session(LoopTask)

NextTakeover ==
  \/ LoopStep
  \/ \E sid \in DOMAIN sessions, w \in WS : register_websocket(sid, w)
  \/ \E sid \in DOMAIN sessions, w \in WS : unregister_websocket(sid, w)
  \/ Tick

SpecTakeover ==
  InitTakeover /\ [][NextTakeover]_vars /\ WF_vars(LoopStep) /\ WF_vars(Tick)

\* ------------------------------------------------------------------------
\* The presence loop left alone with several sessions, each with one
\* unanswered visitor message
\* ------------------------------------------------------------------------
InitLoop ==
  /\ now = 1
  /\ operator_online = FALSE
  /\ ai_provider = TRUE
  /\ event_handlers = NoHandlers
  /\ on_event_callback = FALSE
  /\ response_content = DefaultContent
  /\ sessions = [s \in SessionIds |-> NewSession(IF s = 1 THEN "v1" ELSE "v2", NoMeta)]
  /\ messages = [i \in 1..MaxSessions |-> NewMessage(i, i, DefaultContent, VISITOR)]
  /\ last_operator_activity = [s \in SessionIds |-> None]
  /\ websocket_connections = [s \in {} |-> {}]
  /\ tasks = [p \in Tasks |-> IF p = LoopTask THEN LoopIdle ELSE IdleTask]

SpecLoop ==
  InitLoop /\ [][NextTakeover]_vars /\ WF_vars(LoopStep) /\ WF_vars(Tick)

\* ------------------------------------------------------------------------
\* The presence loop with one unanswered visitor message, stopped at any time
\* ------------------------------------------------------------------------
NextStop ==
  \/ NextTakeover
  \/ stop(LoopTask)
  \/ stop_destroy(LoopTask)

SpecStop == InitTakeover /\ [][NextStop]_vars

\* ------------------------------------------------------------------------
\* Two connects to an existing session, with the presence loop running all
\* the time; message and read-receipt requests are made, and answered, after
\* the first connect has returned and before the second is called.
\* The session's visitor message is old enough for a takeover from the start.
\* ------------------------------------------------------------------------
Writer == NumConnects + 1

ReadLists == {<<i>> : i \in 1..MaxMessages} \cup {[i \in 1..MaxMessages |-> i]}

InitHistory ==
  /\ now = ai_takeover_delay + 2
  /\ operator_online = FALSE
  /\ ai_provider = TRUE
  /\ event_handlers = NoHandlers
  /\ on_event_callback = FALSE
  /\ response_content = DefaultContent
  /\ sessions = (1 :> [NewSession("v1", NoMeta) EXCEPT !.created_at = 1,
                                                      !.last_activity = 1])
  /\ messages = <<[NewMessage(1, 1, DefaultContent, VISITOR) EXCEPT !.timestamp = 1]>>
  /\ last_operator_activity = [s \in SessionIds |-> None]
  /\ websocket_connections = (1 :> WS)
  /\ tasks = [p \in {LoopTask, Writer} \cup ConnectTasks |->
                IF p = LoopTask THEN LoopIdle ELSE IdleTask]

\* the first connect has returned and the second is not called yet
InBetween == tasks[1].pc = "done" /\ tasks[2].pc = "idle"

NextHistory ==
  \/ \E meta \in {NoMeta, PageMeta} :
        /\ tasks[1].pc = "idle"
        /\ handle_connect(1, "v1", 1, meta)
  \/ \E meta \in {NoMeta, PageMeta} :
        /\ InBetween /\ tasks[Writer].pc \in {"idle", "done"}
        /\ handle_connect(2, "v1", 1, meta)
  \/ \E p \in ConnectTasks : handle_connect_by_id(p)
  \/ \E p \in ConnectTasks : handle_connect_updated(p)
  \/ \E p \in ConnectTasks : handle_connect_return(p)
  \/ \E sender \in {VISITOR, OPERATOR} :
        InBetween /\ handle_message(Writer, 1, DefaultContent, sender)
  \/ handle_message_save(Writer)
  \/ handle_message_update(Writer)
  \/ handle_message_sender(Writer)
  \/ handle_message_cleared(Writer)
  \/ notify_bridges_message(Writer)
  \/ \E ids \in ReadLists, status \in {"delivered", "read"} :
        InBetween /\ handle_read(Writer, 1, ids, status)
  \/ handle_read_message(Writer)
  \/ handle_read_saved(Writer)
  \/ handle_read_session(Writer)
  \/ notify_bridges_read(Writer)
  \/ broadcast_to_session(Writer)
  \/ LoopStep

SpecHistory == InitHistory /\ [][NextHistory]_vars

\* ------------------------------------------------------------------------
\* Read receipts for session 1: every session exists and has a subscriber,
\* the messages are dealt out to the sessions in turn; the requests name ids
\* of the session, ids of other sessions and unknown ids, some of them twice
\* ------------------------------------------------------------------------
SessionOf(i) == ((i - 1) % MaxSessions) + 1

ReadIds == 1..(MaxMessages + 1)

ReadRequests == {<<>>} \cup {<<i>> : i \in ReadIds} \cup {<<i, j>> : i \in ReadIds, j \in ReadIds}

InitRead ==
  /\ now = 1
  /\ operator_online = FALSE
  /\ ai_provider = FALSE
  /\ event_handlers = NoHandlers
  /\ on_event_callback = FALSE
  /\ response_content = DefaultContent
  /\ sessions = [s \in SessionIds |-> NewSession(IF s = 1 THEN "v1" ELSE "v2", NoMeta)]
  /\ messages = [i \in 1..MaxMessages |-> NewMessage(i, SessionOf(i), DefaultContent, VISITOR)]
  /\ last_operator_activity = [s \in SessionIds |-> None]
  /\ websocket_connections = [s \in SessionIds |-> WS]
  /\ tasks = [p \in Tasks |-> IF p = LoopTask THEN LoopIdle ELSE IdleTask]

NextRead ==
  \/ \E p \in Procs, ids \in ReadRequests, status \in MessageStatus :
        handle_read(p, 1, ids, status)
  \/ \E p \in Procs : handle_read_message(p)
  \/ \E p \in Procs : handle_read_saved(p)
  \/ \E p \in Procs : handle_read_session(p)
  \/ \E p \in Procs : notify_bridges_read(p)
  \/ \E p \in Procs : broadcast_to_session(p)
  \/ Tick

SpecRead == InitRead /\ [][NextRead]_vars

\* ------------------------------------------------------------------------
\* The fan-out on its own: every session has several subscribers, the
\* operator goes online and offline, and nothing else touches the registry
\* ------------------------------------------------------------------------
Subscribers == 1..(NumWS + 1)

InitBroadcast ==
  /\ sessions = [s \in {} |-> 0]
  /\ messages = <<>>
  /\ now = 1
  /\ ai_provider = FALSE
  /\ event_handlers = NoHandlers
  /\ on_event_callback = FALSE
  /\ response_content = DefaultContent
  /\ operator_online = FALSE
  /\ last_operator_activity = [s \in SessionIds |-> None]
  /\ websocket_connections = [s \in SessionIds |-> Subscribers]
  /\ tasks = [p \in Tasks |-> IF p = LoopTask THEN LoopIdle ELSE IdleTask]

NextBroadcast ==
  \/ \E online \in BOOLEAN : set_operator_online(online)
  \/ \E p \in PresenceTasks : presence_broadcast(p)
  \/ \E p \in PresenceTasks : broadcast_to_session(p)

SpecBroadcast == InitBroadcast /\ [][NextBroadcast]_vars

\* ------------------------------------------------------------------------
\* Presence: the operator goes online and offline while visitors connect;
\* the registry has an entry for every session id
\* ------------------------------------------------------------------------
InitPresence ==
  /\ sessions = [s \in {} |-> 0]
  /\ messages = <<>>
  /\ now = 1
  /\ ai_provider = TRUE
  /\ event_handlers = NoHandlers
  /\ on_event_callback = FALSE
  /\ response_content = DefaultContent
  /\ operator_online = FALSE
  /\ last_operator_activity = [s \in SessionIds |-> None]
  /\ websocket_connections \in [SessionIds -> SUBSET WS]
  /\ tasks = [p \in Tasks |-> IF p = LoopTask THEN LoopIdle ELSE IdleTask]

NextPresence ==
  \/ NextCreation
  \/ \E p \in PresenceTasks : presence_broadcast(p)
  \/ \E p \in PresenceTasks : broadcast_to_session(p)

SpecPresence == InitPresence /\ [][NextPresence]_vars

\* ------------------------------------------------------------------------
\* Operator replies sent through send_operator_message, by a bridge or by
\* the API, while the presence loop runs
\* ------------------------------------------------------------------------
NextOperator ==
  \/ \E p \in Procs, sid \in SessionIds, source \in {None} \cup Bridges :
        send_operator_message(p, sid, DefaultContent, source)
  \/ \E p \in Procs : handle_message_save(p)
  \/ \E p \in Procs : handle_message_update(p)
  \/ \E p \in Procs : handle_message_sender(p)
  \/ \E p \in Procs : handle_message_cleared(p)
  \/ \E p \in Procs : broadcast_to_session(p)
  \/ \E p \in Procs : send_operator_message_session(p)
  \/ \E p \in Procs : notify_bridges_operator_message(p)
  \/ LoopStep
  \/ Tick

SpecOperator == InitTakeover /\ [][NextOperator]_vars

\* ------------------------------------------------------------------------
\* The registry: clients come and go while the presence events are sent
\* ------------------------------------------------------------------------
NextRegistry ==
  \/ \E sid \in SessionIds, w \in Subscribers : register_websocket(sid, w)
  \/ \E sid \in SessionIds, w \in Subscribers : unregister_websocket(sid, w)
  \/ NextBroadcast

SpecRegistry == Init /\ [][NextRegistry]_vars

\* ------------------------------------------------------------------------
\* Messages for a session that has one visitor message, while the presence
\* loop runs and the operator goes online and offline
\* ------------------------------------------------------------------------
NextMessage ==
  \/ \E p \in Procs, sid \in SessionIds, sender \in {VISITOR, OPERATOR} :
        handle_message(p, sid, DefaultContent, sender)
  \/ \E p \in Procs : handle_message_save(p)
  \/ \E p \in Procs : handle_message_update(p)
  \/ \E p \in Procs : handle_message_sender(p)
  \/ \E p \in Procs : handle_message_cleared(p)
  \/ \E p \in Procs : notify_bridges_message(p)
  \/ \E p \in Tasks : broadcast_to_session(p)
  \/ \E online \in BOOLEAN : set_operator_online(online)
  \/ \E p \in PresenceTasks : presence_broadcast(p)
  \/ LoopStep
  \/ Tick

SpecMessage == InitTakeover /\ [][NextMessage]_vars

\* ------------------------------------------------------------------------
\* Observations used by the properties
\* ------------------------------------------------------------------------
HasEv(t, e) == \E i \in 1..Len(t.log) : t.log[i].e = e
HasEvOf(t, e, a) == \E i \in 1..Len(t.log) : t.log[i] = Ev(e, a)
CountEv(t, e, a) == Cardinality({i \in 1..Len(t.log) : t.log[i] = Ev(e, a)})
Persisted(id) == \E k \in 1..Len(messages) : messages[k].id = id
AiCount(msgs, sid) ==
  Cardinality({k \in 1..Len(msgs) : msgs[k].session_id = sid /\ msgs[k].sender = AI})
LatestTime(senders) ==
  LET ts == {messages[k].timestamp : k \in {j \in 1..Len(messages) :
                                              messages[j].sender \in senders}}
  IN IF ts = {} THEN None ELSE CHOOSE m \in ts : \A o \in ts : o <= m
Decided == tasks[LoopTask].pc = "decided"

\* ------------------------------------------------------------------------
\* C1: handle_connect uses the session found by the supplied id; failing
\* that, the visitor's session; it creates a session only when both lookups
\* found nothing.
\* ------------------------------------------------------------------------
C1_ResolutionOrder ==
  \A p \in Procs :
    LET t == tasks[p]
    IN t.op = "connect" /\ t.pc = "done" =>
         /\ t.result.session_id \in DOMAIN sessions
         /\ t.seen_id => t.result.session_id = t.sid /\ ~t.is_new
         /\ ~t.seen_id /\ t.seen_vid =>
              /\ ~t.is_new
              /\ sessions[t.result.session_id].visitor_id = t.vid
         /\ t.is_new <=> ~t.seen_id /\ ~t.seen_vid
         /\ t.is_new <=> HasEv(t, "create_session")

\* a supplied id was unknown and the visitor's session was resumed
C1_Witness ==
  \E p \in Procs :
    /\ tasks[p].op = "connect" /\ tasks[p].pc = "done"
    /\ tasks[p].sid # None /\ ~tasks[p].seen_id /\ tasks[p].seen_vid
    /\ ~tasks[p].is_new

\* ------------------------------------------------------------------------
\* C2: once an operator message has cleared ai_active, no AI message is
\* persisted for the session until a visitor message arrives (stated for the
\* operator request that did the clearing, while its record is kept).
\* ------------------------------------------------------------------------
Silencing(p) ==
  LET t == tasks[p]
  IN /\ t.op = "message" /\ t.sender = OPERATOR
     /\ HasEv(t, "clear_ai")
     /\ \A k \in 1..Len(messages) :
          k > t.message /\ messages[k].session_id = t.sid => messages[k].sender # VISITOR

C2_OperatorSilencesAI ==
  [][\A p \in Procs :
       Silencing(p) => AiCount(messages', tasks[p].sid) = AiCount(messages, tasks[p].sid)]_vars

\* ------------------------------------------------------------------------
\* C3: the operator branch of handle_message leaves ai_active false in
\* storage when it found it true; ai_active rises only in the first step of
\* the takeover action; a session is created with ai_active false.
\* ------------------------------------------------------------------------
C3_AiActive ==
  [][/\ \A p \in Procs :
          LET t == tasks[p]
          IN /\ t.op = "message" /\ t.pc = "m_updated" /\ t.sender = OPERATOR
             /\ sessions[t.session].ai_active
             /\ tasks'[p] # t
             => ~sessions'[t.session].ai_active
     /\ \A s \in DOMAIN sessions :
          ~sessions[s].ai_active /\ sessions'[s].ai_active =>
            /\ tasks[LoopTask].pc = "l_check"
            /\ tasks[LoopTask].session = s
            /\ tasks'[LoopTask].pc = "t_updated"
     /\ \A s \in (DOMAIN sessions') \ DOMAIN sessions : ~sessions'[s].ai_active]_vars

\* an operator request has returned after clearing the flag
C3_Witness ==
  \E p \in Procs :
    /\ tasks[p].op = "message" /\ tasks[p].pc = "done" /\ tasks[p].err = ""
    /\ tasks[p].sender = OPERATOR /\ HasEv(tasks[p], "clear_ai")
    /\ ~sessions[tasks[p].sid].ai_active

\* ------------------------------------------------------------------------
\* C4: with only visitor messages, the latest at T, no operator activity, a
\* provider and ai_active false, the decision is true exactly from T + delay.
\* ------------------------------------------------------------------------
C4_Case ==
  /\ Decided
  /\ ai_provider /\ ~sessions[1].ai_active /\ LastActivity(1) = None
  /\ messages # <<>>
  /\ \A k \in 1..Len(messages) : messages[k].sender = VISITOR

C4_Threshold ==
  C4_Case =>
    (tasks[LoopTask].returns <=>
       tasks[LoopTask].at >= LatestTime({VISITOR}) + ai_takeover_delay)

\* the decision taken exactly at T + delay
C4_Witness ==
  /\ C4_Case
  /\ tasks[LoopTask].at = LatestTime({VISITOR}) + ai_takeover_delay
  /\ tasks[LoopTask].returns

\* ------------------------------------------------------------------------
\* C5 as stated: left alone with an unanswered visitor message, the loop
\* takes the session over exactly once, ai_active is true from then on and,
\* once the takeover is over, the history holds exactly one AI message.
\* ------------------------------------------------------------------------
TakeoverOver(s) ==
  /\ sessions[s].takeovers >= 1
  /\ tasks[LoopTask].pc \in {"sleep", "l_sessions", "l_check"}

TakeoverOnce(s) ==
  /\ sessions[s].takeovers <= 1
  /\ sessions[s].takeovers = 1 <=> sessions[s].ai_active

C5_ExactlyOneReply ==
  /\ <>(sessions[1].takeovers = 1)
  /\ [](TakeoverOnce(1) /\ (TakeoverOver(1) => AiCount(messages, 1) = 1))

\* C5 amended: the loop takes the session over exactly once and ai_active is
\* true from then on; at most one AI message is added, none before the
\* takeover.
C5_TakeoverOnce ==
  /\ <>(sessions[1].takeovers = 1)
  /\ [](TakeoverOnce(1) /\ AiCount(messages, 1) <= sessions[1].takeovers)

\* the takeover ran, the reply is in the history and the loop is asleep again
C5_Witness ==
  /\ sessions[1].takeovers = 1 /\ sessions[1].ai_active
  /\ AiCount(messages, 1) = 1
  /\ tasks[LoopTask].pc = "sleep"

\* ------------------------------------------------------------------------
\* C6: the decision is false when the session has no visitor message or its
\* latest response is not older than its latest visitor message; it is true
\* only for a visitor message with no response or an older one.
\* ------------------------------------------------------------------------
Answered ==
  \/ LatestTime({VISITOR}) = None
  \/ /\ LatestTime({OPERATOR, AI}) # None
     /\ LatestTime({OPERATOR, AI}) >= LatestTime({VISITOR})

C6_Answered ==
  Decided =>
    /\ Answered => ~tasks[LoopTask].returns
    /\ tasks[LoopTask].returns =>
         /\ LatestTime({VISITOR}) # None
         /\ \/ LatestTime({OPERATOR, AI}) = None
            \/ LatestTime({OPERATOR, AI}) < LatestTime({VISITOR})

\* an answered visitor message older than the delay, nothing else in the way
C6_Witness ==
  /\ Decided
  /\ CheckEarly(ai_provider, sessions[1], LastActivity(1), tasks[LoopTask].at)
  /\ LatestTime({VISITOR}) # None
  /\ LatestTime({OPERATOR, AI}) # None
  /\ LatestTime({OPERATOR, AI}) >= LatestTime({VISITOR})
  /\ tasks[LoopTask].at - LatestTime({VISITOR}) >= ai_takeover_delay
  /\ ~tasks[LoopTask].returns

\* ------------------------------------------------------------------------
\* C7: the decision is false without a provider, with ai_active set, or with
\* operator activity recorded less than the delay ago, whatever the history.
\* ------------------------------------------------------------------------
C7_Skips ==
  Decided =>
    /\ ~ai_provider => ~tasks[LoopTask].returns
    /\ sessions[1].ai_active => ~tasks[LoopTask].returns
    /\ LastActivity(1) # None /\ tasks[LoopTask].at - LastActivity(1) < ai_takeover_delay
         => ~tasks[LoopTask].returns

\* ai_active is set while an unanswered visitor message is older than the delay
C7_Witness ==
  /\ Decided
  /\ ai_provider /\ sessions[1].ai_active
  /\ LatestTime({VISITOR}) # None /\ LatestTime({OPERATOR, AI}) = None
  /\ tasks[LoopTask].at - LatestTime({VISITOR}) >= ai_takeover_delay
  /\ ~tasks[LoopTask].returns

\* ------------------------------------------------------------------------
\* C8: handle_message for an unknown session ends with ValueError (404) and
\* leaves storage, operator activity, subscribers and the online flag alone;
\* it notifies no bridge, sends no event and runs no callback.
\* ------------------------------------------------------------------------
C8_NotFound ==
  [][\A p \in Procs :
       LET t == tasks[p]
       IN t.op = "message" /\ t.pc = "m_got" /\ t.sid \notin DOMAIN sessions
          /\ tasks'[p] # t
          => /\ tasks'[p].pc = "done"
             /\ tasks'[p].err = "ValueError"
             /\ send_message_status(tasks'[p]) = 404
             /\ tasks'[p].log = <<>>
             /\ UNCHANGED <<sessions, messages, last_operator_activity,
                            websocket_connections, operator_online>>]_vars

\* a request for an unknown session has failed
C8_Witness ==
  \E p \in Procs :
    /\ tasks[p].op = "message" /\ tasks[p].pc = "done"
    /\ tasks[p].err = "ValueError" /\ tasks[p].sid \notin DOMAIN sessions

\* ------------------------------------------------------------------------
\* C9: in a handle_message the message is saved, and is in storage, before a
\* bridge is notified or an event is sent; the clearing of ai_active comes
\* before any notification or send; the callback comes after the broadcast.
\* ------------------------------------------------------------------------
C9_Order ==
  \A p \in Procs :
    LET t == tasks[p]
    IN t.op = "message" =>
         \A i \in 1..Len(t.log) :
           /\ t.log[i].e \in {"on_message", "broadcast", "send", "callback"} =>
                /\ \E j \in 1..(i - 1) : t.log[j] = Ev("save_message", t.message)
                /\ Persisted(t.message)
           /\ t.log[i].e = "clear_ai" =>
                \A j \in 1..(i - 1) : t.log[j].e \notin {"on_message", "broadcast", "send"}
           /\ t.log[i].e = "callback" =>
                /\ \E j \in 1..(i - 1) : t.log[j].e = "broadcast"
                /\ \A j \in (i + 1)..Len(t.log) : t.log[j].e # "send"

\* a visitor request has notified, sent to a subscriber and run the callback
C9_Witness ==
  \E p \in Procs :
    /\ tasks[p].op = "message" /\ tasks[p].pc = "done" /\ tasks[p].sender = VISITOR
    /\ HasEv(tasks[p], "on_message") /\ HasEv(tasks[p], "send")
    /\ HasEv(tasks[p], "callback")

\* ------------------------------------------------------------------------
\* C10: when a bridge raises in on_message, every bridge is still notified
\* once, the message stays in storage, the broadcast is started, the request
\* never ends with the bridge's error and, unless the fan-out itself raised,
\* the callback has run when the request returns.
\* ------------------------------------------------------------------------
C10_BridgeIsolation ==
  \A p \in Procs :
    LET t == tasks[p]
    IN t.op = "message" /\ t.sender = VISITOR /\ HasEv(t, "bridge_error") =>
         /\ Persisted(t.message)
         /\ t.pc \in {"m_bridge", "bc_send", "done"}
         /\ t.pc # "m_bridge" =>
              /\ \A b \in Bridges : CountEv(t, "on_message", b) = 1
              /\ HasEv(t, "broadcast")
         /\ t.pc = "done" =>
              \/ t.err = "" /\ HasEv(t, "callback")
              \/ t.err = "RuntimeError" /\ HasEv(t, "send")

\* the first bridge raised; the second was notified, a subscriber was sent
\* the event and the callback ran
C10_Witness ==
  \E p \in Procs :
    /\ tasks[p].op = "message" /\ tasks[p].pc = "done" /\ tasks[p].err = ""
    /\ HasEvOf(tasks[p], "bridge_error", 1)
    /\ HasEvOf(tasks[p], "on_message", 2)
    /\ HasEv(tasks[p], "send") /\ HasEv(tasks[p], "callback")

\* ------------------------------------------------------------------------
\* C11: no step changes an ip, country or city the stored metadata of a
\* session already has; in particular not the resume of handle_connect with
\* metadata that omits the field.
\* ------------------------------------------------------------------------
GeoKept(old, new) ==
  old.present =>
    /\ new.present
    /\ old.ip # 0 => new.ip = old.ip
    /\ old.country # 0 => new.country = old.country
    /\ old.city # 0 => new.city = old.city

C11_FillMissing ==
  [][\A s \in DOMAIN sessions : GeoKept(sessions[s].metadata, sessions'[s].metadata)]_vars

\* a resume with metadata that has no ip and no country merged into a
\* session that had both
C11_Witness ==
  \E p \in Procs :
    /\ tasks[p].op = "connect" /\ tasks[p].pc = "done" /\ ~tasks[p].is_new
    /\ tasks[p].meta.present /\ tasks[p].meta.ip = 0 /\ tasks[p].meta.country = 0
    /\ sessions[tasks[p].session].metadata.url = tasks[p].meta.url
    /\ sessions[tasks[p].session].metadata.ip # 0
    /\ sessions[tasks[p].session].metadata.country # 0

\* ------------------------------------------------------------------------
\* C12: the step in which handle_connect goes on with a session it found
\* leaves that session's last_activity at the current time.
\* ------------------------------------------------------------------------
C12_ResumeTouches ==
  [][\A p \in Procs :
       LET t == tasks[p]
       IN /\ t.op = "connect" /\ t.pc \in {"c_got_id", "c_got_vid"}
          /\ t.session # None
          /\ tasks'[p] # t
          => sessions'[t.session].last_activity = now]_vars

\* ------------------------------------------------------------------------
\* C14: a session is created with ai_active false and the operator-online
\* flag of that moment; the creating handle_connect then notifies every
\* bridge once, in order, and runs the new-session callback once after them;
\* a resuming handle_connect does neither.
\* ------------------------------------------------------------------------
IsPrefix(a, b) == Len(a) <= Len(b) /\ SubSeq(b, 1, Len(a)) = a

IsCreationEvent(x) == x.e \in {"create_session", "on_new_session", "on_new_session_callback"}

CreationEvents(s) ==
  <<Ev("create_session", s)>> \o [b \in 1..NumBridges |-> Ev("on_new_session", b)]
    \o <<Ev("on_new_session_callback", s)>>

C14_Creation ==
  [][/\ \A s \in (DOMAIN sessions') \ DOMAIN sessions :
          /\ ~sessions'[s].ai_active
          /\ sessions'[s].operator_online = operator_online
     /\ \A p \in Procs :
          LET t == tasks'[p]
              seen == SelectSeq(t.log, IsCreationEvent)
          IN t.op = "connect" =>
               /\ IsPrefix(seen, CreationEvents(t.session))
               /\ seen # <<>> => t.is_new /\ t.session \in DOMAIN sessions'
               /\ t.pc = "done" => (t.is_new <=> seen = CreationEvents(t.session))]_vars

\* a session created while the operator was online, one bridge failing
C14_Witness ==
  \E p \in Procs :
    /\ tasks[p].op = "connect" /\ tasks[p].pc = "done" /\ tasks[p].is_new
    /\ HasEv(tasks[p], "bridge_error")
    /\ sessions[tasks[p].session].operator_online

\* ------------------------------------------------------------------------
\* C15: storage never holds more than one session of a visitor, also when
\* connects of that visitor without a session id interleave.
\* ------------------------------------------------------------------------
C15_OneSessionPerVisitor ==
  \A v \in Visitors : Cardinality(VisitorSessions(v)) <= 1

\* ------------------------------------------------------------------------
\* C16: the operator branch of handle_message records the current time as
\* the session's last operator activity whether or not ai_active was set; no
\* step of a handle_message changes the operator-online flag or sets ai_active.
\* ------------------------------------------------------------------------
C16_OperatorActivity ==
  [][\A p \in Procs :
       LET t == tasks[p]
       IN /\ /\ t.op = "message" /\ t.pc = "m_updated" /\ t.sender = OPERATOR
             /\ tasks'[p] # t
             => last_operator_activity'[t.sid] = now
          /\ /\ tasks'[p] # t
             /\ tasks'[p].op = "message" \/ (t.op = "message" /\ t.pc # "done")
             => /\ operator_online' = operator_online
                /\ \A s \in DOMAIN sessions :
                     sessions'[s].ai_active => sessions[s].ai_active]_vars

\* an operator message for a session without ai_active has returned while
\* the operator is online: the activity is recorded, ai_active is false
C16_Witness ==
  \E p \in Procs :
    /\ tasks[p].op = "message" /\ tasks[p].pc = "done" /\ tasks[p].err = ""
    /\ tasks[p].sender = OPERATOR /\ ~HasEv(tasks[p], "clear_ai")
    /\ last_operator_activity[tasks[p].sid] = tasks[p].lv
    /\ ~sessions[tasks[p].sid].ai_active
    /\ operator_online

\* ------------------------------------------------------------------------
\* C17: a handle_message of a visitor calls on_message on every bridge
\* exactly once, a handle_message of an operator on none, and the takeover
\* action on none, its reply included.
\* ------------------------------------------------------------------------
C17_VisitorOnly ==
  /\ \A p \in Procs :
       LET t == tasks[p]
       IN t.op = "message" =>
            /\ t.sender # VISITOR => ~HasEv(t, "on_message")
            /\ \A b \in Bridges : CountEv(t, "on_message", b) <= 1
            /\ /\ t.sender = VISITOR
               /\ t.pc = "bc_send" \/ (t.pc = "done" /\ t.err # "ValueError")
               => \A b \in Bridges : CountEv(t, "on_message", b) = 1
  /\ ~HasEv(tasks[LoopTask], "on_message")

\* an operator message has been broadcast and has returned while the
\* takeover action is sending its saved reply
C17_Witness ==
  /\ \E p \in Procs :
       /\ tasks[p].op = "message" /\ tasks[p].pc = "done" /\ tasks[p].err = ""
       /\ tasks[p].sender = OPERATOR /\ HasEv(tasks[p], "send")
  /\ HasEv(tasks[LoopTask], "save_message")
  /\ tasks[LoopTask].pc = "bc_send"

\* ------------------------------------------------------------------------
\* C19: a handle_message, operator or visitor, called for a session that a
\* finished takeover left ai_active without a reply, leaves ai_active false
\* when it passes its sender branch.
\* ------------------------------------------------------------------------
C19_NextMessageResets ==
  [][\A p \in Procs :
       LET t == tasks[p]
       IN /\ t.op = "message" /\ t.pc = "m_updated"
          /\ t.no_reply /\ sessions[t.session].ai_active
          /\ tasks'[p] # t
          => ~sessions'[t.session].ai_active]_vars

\* ------------------------------------------------------------------------
\* C18: when the AI provider raises, nothing is saved or sent and the
\* session stays ai_active; the loop goes on with the remaining sessions of
\* the iteration, and it keeps starting new iterations.
\* ------------------------------------------------------------------------
StillToCheck(q) ==
  {q[i] : i \in {j \in 1..Len(q) :
                   CheckEarly(ai_provider, sessions[q[j]], LastActivity(q[j]), now)}}

C18_ProviderFailure ==
  /\ [][LET t == tasks[LoopTask]
        IN t.pc = "t_generate" /\ tasks'[LoopTask].pc # "t_saved" /\ tasks'[LoopTask] # t
           => /\ messages' = messages
              /\ sessions' = sessions /\ sessions[t.session].ai_active
              /\ IF StillToCheck(t.queue) = {}
                 THEN tasks'[LoopTask].pc = "sleep"
                 ELSE /\ tasks'[LoopTask].pc = "l_check"
                      /\ tasks'[LoopTask].session \in StillToCheck(t.queue)]_vars
  /\ []<>(tasks[LoopTask].pc = "l_sessions")

\* the takeover of session 1 ended without a reply and the same iteration is
\* checking session 2
C18_Witness ==
  /\ sessions[1].ai_active /\ AiCount(messages, 1) = 0
  /\ tasks[LoopTask].pc = "l_check" /\ tasks[LoopTask].session = 2
  /\ ~sessions[2].ai_active /\ sessions[2].takeovers = 0

\* ------------------------------------------------------------------------
\* C20: when stop has cancelled the loop during a takeover and the session
\* is ai_active, the takeover had got as far as calling the AI provider.
\* ------------------------------------------------------------------------
C20_StopCompletes ==
  LET t == tasks[LoopTask]
  IN /\ t.pc \in {"cancelled", "s_destroy", "stopped"}
     /\ HasEv(t, "ai_takeover")
     /\ sessions[t.session].ai_active
     => HasEv(t, "generate_response")

\* ------------------------------------------------------------------------
\* C13: of two connects that supply the id of an existing session, the
\* second called after the first has returned, both return that session id,
\* and the history the second returns contains every message the first
\* returned, whatever messages, read receipts and takeovers came in between.
\* ------------------------------------------------------------------------
Returned(p) == tasks[p].op = "connect" /\ tasks[p].pc = "done"

C13_ConnectIdempotent ==
  /\ \A p \in ConnectTasks :
       Returned(p) => tasks[p].err = "" /\ tasks[p].result.session_id = tasks[p].sid
  /\ Returned(1) /\ Returned(2)
       => \A i \in 1..Len(tasks[1].result.messages) :
            \E j \in 1..Len(tasks[2].result.messages) :
              tasks[2].result.messages[j] = tasks[1].result.messages[i]

C13_Witness ==
  /\ Returned(1) /\ Returned(2)
  /\ tasks[1].result.messages = <<1>>
  /\ tasks[2].result.messages = <<1, 2>>
  /\ messages[1].status = "read" /\ messages[2].sender = AI

\* ------------------------------------------------------------------------
\* C21: when stop is over, the presence loop has ended and destroy has been
\* called on every registered bridge.
\* ------------------------------------------------------------------------
C21_StopDestroysAll ==
  LET t == tasks[LoopTask]
  IN t.pc = "stopped"
       => /\ HasEv(t, "cancelled")
          /\ \A b \in Bridges : HasEvOf(t, "destroy", b)

\* ------------------------------------------------------------------------
\* C22: a step of handle_read changes a stored message only when the
\* message's id is the one the request is at and the message belongs to the
\* request's session, and only then the count goes up; no message is added
\* or removed.
\* ------------------------------------------------------------------------
Matches(t, k) ==
  /\ t.op = "read" /\ t.pc = "r_get"
  /\ messages[k].id = t.message_ids[t.mi]
  /\ messages[k].session_id = t.sid

C22_OnlyMatching ==
  [][/\ Len(messages') = Len(messages)
     /\ \A k \in 1..Len(messages) :
          messages'[k] # messages[k] => \E p \in Procs : Matches(tasks[p], k)
     /\ \A p \in Procs :
          tasks'[p].op = "read" /\ tasks[p].op = "read" /\ tasks'[p].updated > tasks[p].updated
            => /\ tasks'[p].updated = tasks[p].updated + 1
               /\ \E k \in 1..Len(messages) : Matches(tasks[p], k)]_vars

C22_Witness ==
  \E p \in Procs :
    /\ tasks[p].op = "read" /\ tasks[p].pc = "done"
    /\ tasks[p].sid = 1 /\ tasks[p].message_ids = <<2, 3>> /\ tasks[p].status = "read"
    /\ tasks[p].result.updated = 0
    /\ \A k \in 1..Len(messages) : messages[k].status = "sent"

\* ------------------------------------------------------------------------
\* C23: a handle_read that has returned reports the number of messages that
\* matched; with a count of one or more it made one read broadcast and one
\* on_message_read call per capable bridge, with a count of zero none.
\* ------------------------------------------------------------------------
Matching(t) ==
  {k \in 1..Len(messages) :
     /\ messages[k].session_id = t.sid
     /\ \E i \in 1..Len(t.message_ids) : t.message_ids[i] = messages[k].id}

C23_UpdatedCount ==
  \A p \in Procs :
    LET t == tasks[p]
    IN t.op = "read" /\ t.pc = "done" /\ t.err = ""
         => /\ t.result.updated = Cardinality(Matching(t))
            /\ CountEv(t, "broadcast", t.sid) = (IF t.result.updated > 0 THEN 1 ELSE 0)
            /\ \A b \in OnMessageRead \cap Bridges :
                 CountEv(t, "on_message_read", b) = (IF t.result.updated > 0 THEN 1 ELSE 0)

\* ------------------------------------------------------------------------
\* C24: the step that marks a message read sets read_at and sets
\* delivered_at only when it was unset; the step that marks it delivered
\* leaves read_at as it was.
\* ------------------------------------------------------------------------
C24_ReadMonotone ==
  [][\A p \in Procs, k \in 1..Len(messages) :
       Matches(tasks[p], k) /\ tasks'[p] # tasks[p]
         => /\ tasks[p].status = "read"
              => /\ messages'[k].read_at = tasks[p].stamp
                 /\ messages'[k].delivered_at =
                      (IF messages[k].delivered_at # None
                       THEN messages[k].delivered_at ELSE tasks[p].stamp)
            /\ tasks[p].status = "delivered"
              => messages'[k].read_at = messages[k].read_at]_vars

C24_Witness ==
  /\ messages[1].status = "read"
  /\ messages[1].delivered_at = 1 /\ messages[1].read_at = 2

\* ------------------------------------------------------------------------
\* C25: no step moves the status of a message backward in the order
\* sending < sent < delivered < read.
\* ------------------------------------------------------------------------
StatusRank(st) ==
  CASE st = "sending" -> 0 [] st = "sent" -> 1 [] st = "delivered" -> 2 [] st = "read" -> 3

C25_StatusAdvances ==
  [][\A k \in 1..Len(messages) :
       k <= Len(messages') => StatusRank(messages'[k].status) >= StatusRank(messages[k].status)]_vars

\* ------------------------------------------------------------------------
\* C26: while a broadcast is suspended at a send, in the middle of its
\* iteration over a session's subscriber set, no step of anything else
\* changes that set.
\* ------------------------------------------------------------------------
C26_SetStableWhileIterating ==
  [][\A p \in DOMAIN tasks :
       tasks[p].pc = "bc_send" /\ tasks'[p] = tasks[p]
         => websocket_connections'[tasks[p].it.sid] = websocket_connections[tasks[p].it.sid]]_vars

\* ------------------------------------------------------------------------
\* C27: when nothing else changes the registry during the pass, the step
\* that ends a broadcast has sent once to every subscriber of the session
\* and to nobody else, whatever sends failed on the way; it removes the
\* subscribers whose send failed from the session's set, keeps the others,
\* and leaves the sets of the other sessions alone.
\* ------------------------------------------------------------------------
PassEnds(p) == tasks[p].pc = "bc_send" /\ tasks'[p].pc # "bc_send"

C27_FanOut ==
  [][\A p \in PresenceTasks :
       PassEnds(p)
         => LET t == tasks[p]
                conns == websocket_connections[t.it.sid]
            IN /\ t.it.seen = conns
               /\ \A w \in Subscribers :
                    CountEv(t, "send", w) = (IF w \in conns THEN 1 ELSE 0)
               /\ websocket_connections'[t.it.sid] \subseteq conns
               /\ websocket_connections'[t.it.sid] \cap t.it.dead = {}
               /\ conns \ websocket_connections'[t.it.sid] \subseteq t.it.dead \cup {t.it.cur}
               /\ \A s \in DOMAIN websocket_connections \ {t.it.sid} :
                    websocket_connections'[s] = websocket_connections[s]]_vars

C27_Witness ==
  /\ websocket_connections[1] = {2}
  /\ websocket_connections[2] = Subscribers
  /\ tasks[0 - 1].pc = "idle"

\* ------------------------------------------------------------------------
\* C28: in every registry the program reaches, registering a subscriber
\* makes it a member, registering it again changes nothing, unregistering
\* removes it, and unregistering an absent subscriber or one of an unknown
\* session changes nothing; in every step a subscriber becomes a member only
\* by a register for that session and stops being one only by an unregister
\* for that session or by the pruning that ends a broadcast.
\* ------------------------------------------------------------------------
Member(conns, sid, w) == sid \in DOMAIN conns /\ w \in conns[sid]

C28_Idempotent ==
  /\ [](\A sid \in SessionIds, w \in Subscribers :
          LET c == websocket_connections
          IN /\ Member(Registered(c, sid, w), sid, w)
             /\ Registered(Registered(c, sid, w), sid, w) = Registered(c, sid, w)
             /\ Member(c, sid, w) => Registered(c, sid, w) = c
             /\ ~Member(Unregistered(c, sid, w), sid, w)
             /\ Unregistered(Unregistered(c, sid, w), sid, w) = Unregistered(c, sid, w)
             /\ ~Member(c, sid, w) => Unregistered(c, sid, w) = c)
  /\ [][\A sid \in SessionIds, w \in Subscribers :
          LET c == websocket_connections
              d == websocket_connections'
          IN /\ Member(d, sid, w) /\ ~Member(c, sid, w)
                  => tasks' = tasks /\ d = Registered(c, sid, w)
             /\ Member(c, sid, w) /\ ~Member(d, sid, w)
                  => \/ tasks' = tasks /\ d = Unregistered(c, sid, w)
                     \/ \E p \in DOMAIN tasks :
                          /\ tasks[p].pc = "bc_send" /\ tasks'[p].pc # "bc_send"
                          /\ tasks[p].it.sid = sid
                          /\ w \in tasks[p].it.dead \cup {tasks[p].it.cur}]_vars

C28_Witness ==
  /\ websocket_connections = (1 :> {1, 2}) @@ (2 :> {})
  /\ \A p \in PresenceTasks : tasks[p].pc = "idle"

\* ------------------------------------------------------------------------
\* C29: the operator-online flag changes only together with the start of
\* one presence event per session of the registry, each carrying the new
\* value; such an event is sent to every subscriber of its session;
\* handle_presence and every connect response, of a new and of a resumed
\* session, report the flag as it stands.
\* ------------------------------------------------------------------------
Started(p) == tasks'[p].pc = "p_start" /\ tasks[p] # tasks'[p]

C29_Presence ==
  /\ [](handle_presence.online = operator_online)
  /\ [][/\ operator_online' # operator_online
             => \A s \in DOMAIN websocket_connections : Started(0 - s)
        /\ \A p \in PresenceTasks :
             Started(p) => /\ tasks'[p].online = operator_online'
                           /\ tasks'[p].sid = 0 - p
                           /\ \A s \in DOMAIN websocket_connections : Started(0 - s)
        /\ \A p \in PresenceTasks :
             PassEnds(p) => tasks[p].it.seen = websocket_connections[tasks[p].it.sid]
        /\ \A p \in Procs :
             tasks[p].pc = "c_messages" /\ tasks'[p].pc = "done"
               => tasks'[p].result.operator_online = operator_online]_vars

C29_Witness ==
  \E p \in Procs :
    /\ tasks[p].op = "connect" /\ tasks[p].pc = "done" /\ ~tasks[p].is_new
    /\ operator_online /\ tasks[p].result.operator_online
    /\ ~sessions[tasks[p].session].operator_online
    /\ \E q \in PresenceTasks : tasks[q].pc = "bc_send" /\ tasks[q].online

\* ------------------------------------------------------------------------
\* C30: a send_operator_message that is over has, for an unknown session,
\* failed with NotFound and notified no bridge; otherwise it has saved an
\* operator message and called on_operator_message, tagged with the source
\* bridge or with "api", once on every bridge except the source bridge.
\* ------------------------------------------------------------------------
C30_OperatorSync ==
  \A p \in Procs :
    LET t == tasks[p]
    IN t.caller = "send_operator_message" /\ t.pc = "done"
         => /\ t.err = "ValueError"
              => ~HasEv(t, "on_operator_message") /\ ~HasEv(t, "save_message")
            /\ t.err = ""
              => /\ t.sender = OPERATOR /\ HasEv(t, "save_message")
                 /\ t.tag = SourceTag(t.source_bridge)
                 /\ \A b \in Bridges :
                      CountEv(t, "on_operator_message", b) =
                        (IF b = t.source_bridge THEN 0 ELSE 1)

\* ------------------------------------------------------------------------
\* C36: in the step that persists an AI message, no operator message of the
\* session stands after the session's latest visitor message.
\* ------------------------------------------------------------------------
OperatorAnswered(msgs) ==
  \E j \in 1..Len(msgs) :
    /\ msgs[j].sender = OPERATOR
    /\ \A i \in 1..Len(msgs) : msgs[i].sender = VISITOR => i < j

C36_NoReplyToAnsweredTurn ==
  [][Len(messages') = Len(messages) + 1 /\ messages'[Len(messages')].sender = AI
       => ~OperatorAnswered(get_messages(messages'[Len(messages')].session_id))]_vars

\* ------------------------------------------------------------------------
\* C38: a connect that has returned hands out a session of the visitor the
\* request named.
\* ------------------------------------------------------------------------
C38_OwnSessionOnly ==
  \A p \in Procs :
    tasks[p].op = "connect" /\ tasks[p].pc = "done" /\ tasks[p].err = ""
      => /\ tasks[p].result.visitor_id = tasks[p].vid
         /\ sessions[tasks[p].result.session_id].visitor_id = tasks[p].vid

\* ------------------------------------------------------------------------
\* C39: in every state a read message has read_at and delivered_at, a
\* delivered message has delivered_at, and only a read message has read_at.
\* ------------------------------------------------------------------------
C39_ReceiptsConsistent ==
  \A k \in 1..Len(messages) :
    LET m == messages[k]
    IN /\ m.status = "read" => m.read_at # None /\ m.delivered_at # None
       /\ m.status = "delivered" => m.delivered_at # None
       /\ m.read_at # None => m.status = "read"

\* ------------------------------------------------------------------------
\* Message contents: requests of every length arrive on the HTTP route and
\* through send_operator_message, and the provider answers with any length
\* ------------------------------------------------------------------------
InitContent ==
  /\ now = 1
  /\ operator_online = FALSE
  /\ ai_provider = TRUE
  /\ event_handlers = NoHandlers
  /\ on_event_callback = FALSE
  /\ response_content \in Contents
  /\ sessions = (1 :> NewSession("v1", NoMeta))
  /\ messages = <<>>
  /\ last_operator_activity = [s \in SessionIds |-> None]
  /\ websocket_connections = (1 :> WS)
  /\ tasks = [p \in Tasks |-> IF p = LoopTask THEN LoopIdle ELSE IdleTask]

NextContent ==
  \/ \E p \in Procs, content \in Contents, sender \in {VISITOR, OPERATOR} :
        send_message(p, 1, content, sender)
  \/ \E p \in Procs, content \in Contents :
        send_operator_message(p, 1, content, None)
  \/ \E p \in Procs : handle_message_save(p)
  \/ \E p \in Procs : handle_message_update(p)
  \/ \E p \in Procs : handle_message_sender(p)
  \/ \E p \in Procs : handle_message_cleared(p)
  \/ \E p \in Procs : notify_bridges_message(p)
  \/ \E p \in Procs : broadcast_to_session(p)
  \/ \E p \in Procs : send_operator_message_session(p)
  \/ \E p \in Procs : notify_bridges_operator_message(p)
  \/ LoopStep
  \/ Tick

SpecContent == InitContent /\ [][NextContent]_vars

\* ------------------------------------------------------------------------
\* C33: every persisted message has a content of at most MaxContent units,
\* whatever path created it.
\* ------------------------------------------------------------------------
C33_ContentBounded ==
  \A k \in 1..Len(messages) : messages[k].content <= MaxContent

\* ------------------------------------------------------------------------
\* C34: no step removes a stored message or changes its id, session,
\* content, sender or timestamp; the only steps that change a stored message
\* at all are steps of handle_read, and they change its status, delivered_at
\* and read_at alone.
\* ------------------------------------------------------------------------
C34_MessagesImmutable ==
  [][\A k \in 1..Len(messages) :
       /\ Len(messages') >= k
       /\ messages'[k].id = messages[k].id
       /\ messages'[k].session_id = messages[k].session_id
       /\ messages'[k].content = messages[k].content
       /\ messages'[k].sender = messages[k].sender
       /\ messages'[k].timestamp = messages[k].timestamp
       /\ messages'[k] # messages[k]
            => \E p \in Procs \cup {Writer} :
                 tasks[p].op = "read" /\ tasks'[p] # tasks[p]]_vars

\* a visitor message marked read after a later message was saved and a
\* connect returned the history
C34_Witness ==
  /\ Len(messages) = 2
  /\ messages[1].status = "read" /\ messages[1].read_at > messages[1].timestamp
  /\ messages[1].content = DefaultContent /\ messages[1].sender = VISITOR
  /\ messages[2].sender \in {OPERATOR, AI}
  /\ Returned(2)

\* ------------------------------------------------------------------------
\* Pages of history: handle_get_messages
\* ------------------------------------------------------------------------
\* the largest page handle_get_messages hands out (stands for 100)
MaxLimit == 2

\* the limits a caller may send: the query parameter is any integer
Limits == (0 - 1)..(MaxLimit + 2)

\* the cursors a caller may send: none, or a message id, stored or not
Cursors == {None} \cup (1..(MaxHist + 1))

Min(a, b) == IF a <= b THEN a ELSE b

\* seq[:n] as Python slices: a negative n counts from the end
Slice(seq, n) ==
  IF n >= 0 THEN SubSeq(seq, 1, Min(n, Len(seq)))
  ELSE SubSeq(seq, 1, Len(seq) + n)

\* the messages of the session that follow the cursor (all of them for no
\* cursor and for a cursor that is not a message of the session)
AfterCursor(sid, after) ==
  LET all == get_messages(sid)
      at == {i \in 1..Len(all) : all[i].id = after}
  IN IF after = None \/ at = {} THEN all
     ELSE SubSeq(all, (CHOOSE i \in at : TRUE) + 1, Len(all))

\* get_messages(session_id, after, limit): the window of the limit kept
get_messages_page(sid, after, limit) ==
  LET rest == AfterCursor(sid, after)
  IN IF Len(rest) <= limit THEN rest
     ELSE SubSeq(rest, Len(rest) - limit + 1, Len(rest))

\* lines 199-209: one read of the storage, limit + 1 messages asked for
handle_get_messages(p, sid, after, limit) ==
  LET lim == Min(limit, MaxLimit)
      page == get_messages_page(sid, after, lim + 1)
      out == Slice(page, lim)
  IN /\ tasks[p].pc \in {"idle", "done"}
     /\ tasks' = [tasks EXCEPT ![p] =
          [IdleTask EXCEPT !.op = "get_messages", !.pc = "done", !.sid = sid,
                           !.after = after, !.limit = limit,
                           !.result = [NoResult EXCEPT
                              !.messages = [i \in 1..Len(out) |-> out[i].id],
                              !.has_more = Len(page) > lim]]]
     /\ UNCHANGED <<sessions, messages, now, ai_provider, operator_online,
                    last_operator_activity, websocket_connections,
                    event_handlers, on_event_callback, response_content>>

\* every storage of at most MaxHist messages spread over the sessions
InitPage ==
  /\ now = 1
  /\ operator_online = FALSE
  /\ ai_provider = FALSE
  /\ event_handlers = NoHandlers
  /\ on_event_callback = FALSE
  /\ response_content = DefaultContent
  /\ sessions = [s \in SessionIds |-> NewSession("v1", NoMeta)]
  /\ \E n \in 0..MaxHist : \E owner \in [1..n -> SessionIds] :
        messages = [i \in 1..n |-> NewMessage(i, owner[i], DefaultContent, VISITOR)]
  /\ last_operator_activity = [s \in SessionIds |-> None]
  /\ websocket_connections = [s \in {} |-> {}]
  /\ tasks = [p \in Tasks |-> IF p = LoopTask THEN LoopIdle ELSE IdleTask]

NextPage ==
  \E p \in Procs, sid \in SessionIds, after \in Cursors, limit \in Limits :
     handle_get_messages(p, sid, after, limit)

SpecPage == InitPage /\ [][NextPage]_vars

\* the stored messages of the call's session that follow the cursor and are
\* not on the page
LeftAfterPage(t) ==
  LET rest == AfterCursor(t.sid, t.after)
  IN {i \in 1..Len(rest) :
        \A j \in 1..Len(t.result.messages) : t.result.messages[j] # rest[i].id}

\* ------------------------------------------------------------------------
\* C35: handle_get_messages returns at most min(limit, 100) messages, and
\* its hasMore flag is true exactly when the storage holds more messages
\* after the returned page.
\* ------------------------------------------------------------------------
C35_PageAndFlag ==
  \A p \in Procs :
    LET t == tasks[p]
    IN t.op = "get_messages" /\ t.pc = "done"
         => /\ Len(t.result.messages) <= Min(t.limit, MaxLimit)
            /\ t.result.has_more <=> LeftAfterPage(t) # {}

\* what does hold: the claim for the limits that are not negative
C35_PageAndFlagFromZero ==
  \A p \in Procs :
    LET t == tasks[p]
    IN t.op = "get_messages" /\ t.pc = "done" /\ t.limit >= 0
         => /\ Len(t.result.messages) <= Min(t.limit, MaxLimit)
            /\ t.result.has_more <=> LeftAfterPage(t) # {}

\* ------------------------------------------------------------------------
\* A visitor who keeps writing: the presence loop and visitor messages of
\* one session, with a provider, no operator, no realtime subscriber, and
\* time enough for the delay to pass twice
\* ------------------------------------------------------------------------
\* the last instant of the clock: a message sent when a first takeover is
\* over (at ai_takeover_delay + 1 at the earliest) grows old before it
FollowUpEnd == 2 * ai_takeover_delay + 1

TickOn ==
  /\ now < FollowUpEnd
  /\ now' = now + 1
  /\ UNCHANGED <<sessions, messages, ai_provider, operator_online,
                 last_operator_activity, websocket_connections, tasks,
                 event_handlers, on_event_callback, response_content>>

InitFollowUp ==
  /\ now = 1
  /\ operator_online = FALSE
  /\ ai_provider = TRUE
  /\ event_handlers = NoHandlers
  /\ on_event_callback = FALSE
  /\ response_content = DefaultContent
  /\ sessions = (1 :> NewSession("v1", NoMeta))
  /\ messages = <<>>
  /\ last_operator_activity = [s \in SessionIds |-> None]
  /\ websocket_connections = [s \in {} |-> {}]
  /\ tasks = [p \in Tasks |-> IF p = LoopTask THEN LoopIdle ELSE IdleTask]

\* the steps of handle_message and of the loop when nobody is subscribed
MessageStep ==
  \/ \E p \in Procs : handle_message_save(p)
  \/ \E p \in Procs : handle_message_update(p)
  \/ \E p \in Procs : handle_message_sender(p)
  \/ \E p \in Procs : notify_bridges_message(p)

TakeoverStep ==
  \/ presence_check_loop(LoopTask)
  \/ presence_check_loop_for(LoopTask)
  \/ check_ai_takeover_resume(LoopTask)
  \/ trigger_ai_response_notify(LoopTask)
  \/ trigger_ai_response_bridge(LoopTask)
  \/ trigger_ai_response_generate(LoopTask)
  \/ trigger_ai_response_save(LoopTask)
  \/ trigger_ai_response_broadcast(LoopTask)

NextFollowUp ==
  \/ \E p \in Procs : handle_message(p, 1, DefaultContent, VISITOR)
  \/ MessageStep
  \/ TakeoverStep
  \/ TickOn

SpecFollowUp ==
  /\ InitFollowUp /\ [][NextFollowUp]_vars
  /\ WF_vars(TakeoverStep) /\ WF_vars(MessageStep) /\ WF_vars(TickOn)

\* visitor message k of the session is stored, early enough for the delay
\* to pass, and the provider has not been called since it was saved
Waiting(sid, k) ==
  LET h == get_messages(sid)
  IN /\ k <= Len(h)
     /\ h[k].sender = VISITOR
     /\ h[k].timestamp + ai_takeover_delay <= FollowUpEnd
     /\ sessions[sid].called < k

\* generate_response was called for the session with message k in its history
ProviderCalled(sid, k) == sessions[sid].called >= k

\* a later visitor message restarted the wait too late for the delay to pass
\* before the clock ends
Restarted(sid, k) ==
  LET h == get_messages(sid)
  IN \E j \in (k + 1)..Len(h) :
       /\ h[j].sender = VISITOR
       /\ h[j].timestamp + ai_takeover_delay > FollowUpEnd

\* ------------------------------------------------------------------------
\* C37: with a provider and a fair loop, every visitor message that stays
\* without an operator reply for the takeover delay is eventually followed
\* by a call to the provider for its session, also when the session was
\* taken over before.
\* ------------------------------------------------------------------------
C37_EveryTurnTakenOver ==
  \A k \in 1..MaxMessages :
    Waiting(1, k) ~> (ProviderCalled(1, k) \/ Restarted(1, k))

\* what does hold: the same for the sessions no takeover has touched yet
C37_FirstTurnTakenOver ==
  \A k \in 1..MaxMessages :
    (Waiting(1, k) /\ sessions[1].takeovers = 0)
      ~> (ProviderCalled(1, k) \/ Restarted(1, k))

\* ------------------------------------------------------------------------
\* Custom events: the registry of handlers and handle_custom_event
\* ------------------------------------------------------------------------
NumHandlers == 2
Handlers == 1..NumHandlers

\* the names handlers are registered under and events arrive with
EventNames == {"order", "page", "*"}

\* self._event_handlers.get(name, set())
HandlersOf(name) ==
  IF name \in DOMAIN event_handlers THEN event_handlers[name] ELSE {}

\* lines 560-578: the handler joins the set of the name
on_event(name, h) ==
  /\ event_handlers' =
       IF name \in DOMAIN event_handlers
       THEN [event_handlers EXCEPT ![name] = @ \cup {h}]
       ELSE event_handlers @@ (name :> {h})
  /\ UNCHANGED <<sessions, messages, now, ai_provider, operator_online,
                 last_operator_activity, websocket_connections, tasks,
                 on_event_callback, response_content>>

\* lines 580-587, and the unsubscribe on_event returned: discard
off_event(name, h) ==
  /\ name \in DOMAIN event_handlers
  /\ event_handlers' = [event_handlers EXCEPT ![name] = @ \ {h}]
  /\ UNCHANGED <<sessions, messages, now, ai_provider, operator_online,
                 last_operator_activity, websocket_connections, tasks,
                 on_event_callback, response_content>>

\* mutant: the global callback runs before the wildcard handlers
NextStage_callback_first(stage) ==
  CASE stage = "exact" -> "callback"
    [] stage = "callback" -> "wildcard"
    [] stage = "wildcard" -> "bridges"
    [] stage = "bridges" -> "end"

\* lines 634-664: the order of the four groups
NextStage(stage) ==
  CASE stage = "exact" -> "wildcard"
    [] stage = "wildcard" -> "callback"
    [] stage = "callback" -> "bridges"
    [] stage = "bridges" -> "end"

\* the key of the registry a stage iterates
StageName(t, stage) == IF stage = "exact" THEN t.name ELSE "*"

\* the bridges with an on_event method (t.capable) that come after bridge b
\* in self.bridges
BridgesAfter(t, b) == {c \in t.capable : c > b}
FirstAfter(t, b) ==
  CHOOSE c \in BridgesAfter(t, b) : \A d \in BridgesAfter(t, b) : c <= d

\* the call enters a group: its first invocation, or the next group when the
\* group is empty, or the return
RECURSIVE EnterStage(_, _)
EnterStage(t, stage) ==
  IF stage = "end" THEN {[t EXCEPT !.pc = "done", !.stage = "end", !.it = NoIter]}
  ELSE IF stage \in {"exact", "wildcard"}
  THEN LET hs == HandlersOf(StageName(t, stage))
       IN IF hs = {} THEN EnterStage(t, NextStage(stage))
          ELSE {Logged([t EXCEPT !.pc = "e_handler", !.stage = stage,
                                 !.it = [sid |-> t.sid, size |-> Cardinality(hs),
                                         seen |-> {h}, cur |-> h, dead |-> {}]],
                       stage, h) : h \in hs}
  ELSE IF stage = "callback"
  THEN IF on_event_callback
       THEN {Logged([t EXCEPT !.pc = "e_callback", !.stage = stage, !.it = NoIter],
                    "callback", 0)}
       ELSE EnterStage(t, NextStage(stage))
  ELSE IF BridgesAfter(t, 0) = {}
       THEN EnterStage(t, NextStage(stage))
       ELSE {Logged([t EXCEPT !.pc = "e_bridge", !.stage = stage, !.it = NoIter,
                              !.bi = FirstAfter(t, 0)],
                    "on_event", FirstAfter(t, 0))}

\* what an invocation that raised leaves in the log (the except clauses print)
Outcome(t, ok) == IF ok THEN t ELSE Logged(t, "raised", t.stage)

\* line 629: get_session. capable: the bridges that have an on_event method
handle_custom_event(p, sid, name, capable) ==
  /\ tasks[p].pc \in {"idle", "done"}
  /\ tasks' = [tasks EXCEPT ![p] =
       [IdleTask EXCEPT !.op = "event", !.pc = "e_session", !.sid = sid,
                        !.name = name, !.capable = capable,
                        !.session = get_session(sid)]]
  /\ UNCHANGED <<sessions, messages, now, ai_provider, operator_online,
                 last_operator_activity, websocket_connections,
                 event_handlers, on_event_callback, response_content>>

\* lines 630-636: unknown session, or the first invocation
handle_custom_event_session(p) ==
  LET t == tasks[p]
  IN /\ t.pc = "e_session"
     /\ IF t.session = None
        THEN tasks' = [tasks EXCEPT ![p] = [t EXCEPT !.pc = "done"]]
        ELSE \E u \in EnterStage(t, "exact") : tasks' = [tasks EXCEPT ![p] = u]
     /\ UNCHANGED <<sessions, messages, now, ai_provider, operator_online,
                    last_operator_activity, websocket_connections,
                    event_handlers, on_event_callback, response_content>>

\* mutant: no try/except around the handler
handle_custom_event_handler_unguarded(p) ==
  LET t == tasks[p]
      hs == HandlersOf(StageName(t, t.stage))
  IN /\ t.pc = "e_handler"
     /\ \E ok \in BOOLEAN :
          IF ~ok
          THEN tasks' = [tasks EXCEPT ![p] =
                 [Outcome(t, ok) EXCEPT !.pc = "done", !.err = "Exception"]]
          ELSE IF Cardinality(hs) # t.it.size
          THEN tasks' = [tasks EXCEPT ![p] =
                 [t EXCEPT !.pc = "done", !.err = "RuntimeError"]]
          ELSE IF hs \ t.it.seen # {}
          THEN \E h \in hs \ t.it.seen :
                 tasks' = [tasks EXCEPT ![p] =
                   Logged([t EXCEPT !.it.seen = @ \cup {h}, !.it.cur = h],
                          t.stage, h)]
          ELSE \E u \in EnterStage(t, NextStage(t.stage)) :
                 tasks' = [tasks EXCEPT ![p] = u]
     /\ UNCHANGED <<sessions, messages, now, ai_provider, operator_online,
                    last_operator_activity, websocket_connections,
                    event_handlers, on_event_callback, response_content>>

\* lines 636-653: a handler returned or raised; the for statement takes the
\* next handler of the set (RuntimeError when the set changed in size), or
\* the next group begins
handle_custom_event_handler(p) ==
  LET t == tasks[p]
      hs == HandlersOf(StageName(t, t.stage))
  IN /\ t.pc = "e_handler"
     /\ \E ok \in BOOLEAN :
          LET o == Outcome(t, ok)
          IN IF Cardinality(hs) # t.it.size
             THEN tasks' = [tasks EXCEPT ![p] =
                    [o EXCEPT !.pc = "done", !.err = "RuntimeError"]]
             ELSE IF hs \ t.it.seen # {}
             THEN \E h \in hs \ t.it.seen :
                    tasks' = [tasks EXCEPT ![p] =
                      Logged([o EXCEPT !.it.seen = @ \cup {h}, !.it.cur = h],
                             t.stage, h)]
             ELSE \E u \in EnterStage(o, NextStage(t.stage)) :
                    tasks' = [tasks EXCEPT ![p] = u]
     /\ UNCHANGED <<sessions, messages, now, ai_provider, operator_online,
                    last_operator_activity, websocket_connections,
                    event_handlers, on_event_callback, response_content>>

\* lines 655-661: the global callback returned or raised
handle_custom_event_callback(p) ==
  LET t == tasks[p]
  IN /\ t.pc = "e_callback"
     /\ \E ok \in BOOLEAN :
          \E u \in EnterStage(Outcome(t, ok), NextStage(t.stage)) :
             tasks' = [tasks EXCEPT ![p] = u]
     /\ UNCHANGED <<sessions, messages, now, ai_provider, operator_online,
                    last_operator_activity, websocket_connections,
                    event_handlers, on_event_callback, response_content>>

\* lines 666-673: on_event of bridge bi returned or raised
notify_bridges_event(p) ==
  LET t == tasks[p]
  IN /\ t.pc = "e_bridge"
     /\ \E ok \in BOOLEAN :
          LET o == Outcome(t, ok)
          IN IF BridgesAfter(t, t.bi) # {}
             THEN tasks' = [tasks EXCEPT ![p] =
                    Logged([o EXCEPT !.bi = FirstAfter(t, t.bi)],
                           "on_event", FirstAfter(t, t.bi))]
             ELSE \E u \in EnterStage(o, NextStage(t.stage)) :
                    tasks' = [tasks EXCEPT ![p] = u]
     /\ UNCHANGED <<sessions, messages, now, ai_provider, operator_online,
                    last_operator_activity, websocket_connections,
                    event_handlers, on_event_callback, response_content>>

\* one session, with and without a global callback
InitEvents ==
  /\ now = 1
  /\ operator_online = FALSE
  /\ ai_provider = FALSE
  /\ event_handlers = NoHandlers
  /\ on_event_callback \in BOOLEAN
  /\ response_content = DefaultContent
  /\ sessions = (1 :> NewSession("v1", NoMeta))
  /\ messages = <<>>
  /\ last_operator_activity = [s \in SessionIds |-> None]
  /\ websocket_connections = [s \in {} |-> {}]
  /\ tasks = [p \in Tasks |-> IF p = LoopTask THEN LoopIdle ELSE IdleTask]

\* no call of handle_custom_event was made yet
NoEventCall == \A p \in Procs : tasks[p].op # "event"

\* handlers are registered and removed, then events arrive
NextEvents ==
  \/ \E name \in EventNames, h \in Handlers : NoEventCall /\ on_event(name, h)
  \/ \E name \in EventNames, h \in Handlers : NoEventCall /\ off_event(name, h)
  \/ \E p \in Procs, sid \in SessionIds, name \in EventNames :
        \E capable \in SUBSET Bridges : handle_custom_event(p, sid, name, capable)
  \/ \E p \in Procs : handle_custom_event_session(p)
  \/ \E p \in Procs : handle_custom_event_handler(p)
  \/ \E p \in Procs : handle_custom_event_callback(p)
  \/ \E p \in Procs : notify_bridges_event(p)

SpecEvents == InitEvents /\ [][NextEvents]_vars

\* the call of task p returns (or raises) in this step
Completes(p) ==
  tasks[p].op = "event" /\ tasks[p].pc # "done" /\ tasks'[p].pc = "done"

\* the place of a group in the order of the claim
Rank(e) ==
  CASE e = "exact" -> 1 [] e = "wildcard" -> 2 [] e = "callback" -> 3
    [] e = "on_event" -> 4 [] OTHER -> 0

Invocations(t) == {i \in 1..Len(t.log) : Rank(t.log[i].e) > 0}

\* how often handler h was run, under its name or as a wildcard handler
Runs(t, h) == CountEv(t, "exact", h) + CountEv(t, "wildcard", h)

\* ------------------------------------------------------------------------
\* C31: a call of handle_custom_event for a known session has invoked, by
\* the time it returns, every handler of the event's name, then every
\* wildcard handler, then the global callback, then on_event of every bridge
\* that has it, and nothing else; a call for an unknown session invokes
\* nothing.
\* ------------------------------------------------------------------------
C31_InvocationOrder ==
  [][\A p \in Procs : Completes(p) =>
       LET t == tasks'[p]
       IN IF t.session = None THEN t.log = <<>>
          ELSE /\ \A i, j \in Invocations(t) :
                    i < j => Rank(t.log[i].e) <= Rank(t.log[j].e)
               /\ \A h \in Handlers :
                    /\ HasEvOf(t, "exact", h) <=> h \in HandlersOf(t.name)
                    /\ HasEvOf(t, "wildcard", h) <=> h \in HandlersOf("*")
               /\ HasEvOf(t, "callback", 0) <=> on_event_callback
               /\ \A b \in Bridges : HasEvOf(t, "on_event", b) <=> b \in t.capable]_vars

C31_Witness ==
  \E p \in Procs :
    /\ tasks[p].op = "event" /\ tasks[p].pc = "done" /\ tasks[p].name = "order"
    /\ tasks[p].log = <<Ev("exact", 1), Ev("wildcard", 2), Ev("callback", 0),
                        Ev("on_event", 1), Ev("on_event", 2)>>

\* ------------------------------------------------------------------------
\* C32: whichever of the invoked handlers, callback and bridges raise, a
\* call of handle_custom_event for a known session returns without error
\* and has made every invocation: one per handler of the name, one per
\* wildcard handler, the callback, one per bridge with on_event.
\* ------------------------------------------------------------------------
C32_FaultIsolated ==
  [][\A p \in Procs : Completes(p) /\ tasks'[p].session # None =>
       LET t == tasks'[p]
       IN /\ t.err = ""
          /\ Cardinality(Invocations(t)) =
               Cardinality(HandlersOf(t.name)) + Cardinality(HandlersOf("*"))
               + (IF on_event_callback THEN 1 ELSE 0) + Cardinality(t.capable)]_vars

\* every invocation of a call raised: a handler of the name, a wildcard
\* handler, the callback and both bridges
C32_Witness ==
  \E p \in Procs :
    /\ tasks[p].op = "event" /\ tasks[p].pc = "done" /\ tasks[p].err = ""
    /\ tasks[p].log = <<Ev("exact", 1), Ev("raised", "exact"),
                        Ev("wildcard", 2), Ev("raised", "wildcard"),
                        Ev("callback", 0), Ev("raised", "callback"),
                        Ev("on_event", 1), Ev("raised", "bridges"),
                        Ev("on_event", 2), Ev("raised", "bridges")>>

\* ------------------------------------------------------------------------
\* C40: in a call for a known session, a handler registered under '*' only
\* runs exactly once, whatever the name of the event, '*' included; a
\* handler registered under one exact name only runs once for an event of
\* that name and not at all for an event of another name.
\* ------------------------------------------------------------------------
C40_OncePerRegistration ==
  [][\A p \in Procs : Completes(p) /\ tasks'[p].session # None =>
       LET t == tasks'[p]
       IN \A h \in Handlers : \A n \in EventNames :
            (h \in HandlersOf(n) /\ \A o \in EventNames \ {n} : h \notin HandlersOf(o))
              => Runs(t, h) = IF n = "*" \/ n = t.name THEN 1 ELSE 0]_vars

\* what does hold: the same for the events whose name is not '*'
C40_OncePerRegistrationNamed ==
  [][\A p \in Procs : Completes(p) /\ tasks'[p].session # None /\ tasks'[p].name # "*" =>
       LET t == tasks'[p]
       IN \A h \in Handlers : \A n \in EventNames :
            (h \in HandlersOf(n) /\ \A o \in EventNames \ {n} : h \notin HandlersOf(o))
              => Runs(t, h) = IF n = "*" \/ n = t.name THEN 1 ELSE 0]_vars

====
